---------------------------- MODULE Spec2Model ----------------------------
(***************************************************************************)
(* A model of the heuristic analysis pipeline of repo_analyzer_ai:         *)
(* commit classification (git_analyzer.py), feature complexity and effort  *)
(* estimation (feature_mapper.py, config.py), technology deduplication     *)
(* (repo_analyzer.py) and developer / team metrics (developer_analyzer.py).*)
(*                                                                         *)
(* Strings the code searches (commit messages, pattern tables) are         *)
(* sequences of one-character strings, so that lower-casing and the        *)
(* substring test are computed and not assumed.  Decimal quantities are    *)
(* fixed-point integers; the unit is stated where they are defined.        *)
(***************************************************************************)
EXTENDS Integers, Sequences, FiniteSets, TLC

VARIABLES
    commits,            \* List[CommitInfo] handed to _analyze_commit_patterns
    commit_patterns,    \* the CommitPattern values it has returned
    features,           \* the Feature objects under assessment
    complexity,         \* per feature: the values assess_complexity returned
    hours,              \* per feature: the values estimate_development_time returned
    files,              \* List[FileInfo] of the scanned repository
    tech_stack,         \* the list handed to _deduplicate_technologies
    unique_tech,        \* the lists it has returned
    technology_stack,   \* the lists _identify_technology_stack has returned
    developer_profiles, \* List[DeveloperProfile] of analyze_team_dynamics
    bus_factor,         \* the values _calculate_bus_factor has returned
    author_stat,        \* the AuthorStats handed to _assess_skill_level
    skill,              \* the (score, level) values it has computed
    technical_debt,     \* the values _assess_technical_debt has returned
    level_args,         \* the (loc, commit_count) handed to get_complexity_level
    complexity_level,   \* the values it has returned
    environment,        \* what one run of analyze_project finds outside itself
    pc,                 \* the step analyze_project is about to execute
    stages,             \* the steps it has started, in order
    analysis_data,      \* self.analysis_data, a dict
    raised,             \* the exception analyze_project re-raised, if any
    report,             \* the report files written
    structure,          \* the repo_structure handed to the called operation
    risk_assessment,    \* the outcomes of assess_project_risks
    team_dynamics,      \* the outcomes of analyze_team_dynamics
    commit_frequency_trend, \* the commit_frequency_trend values returned
    file_paths,         \* f.path of the files handed to _detect_layered_architecture
    layered_architecture,   \* the values it has returned
    author_stats,       \* the lists GitAnalyzer.analyze_developers has returned
    identified_features,    \* the lists identify_features has returned
    finished_runs       \* the calls of analyze_project that have ended

\* A result variable is the sequence of the values the operation has returned
\* so far, <<>> before its first call.

gitVars == <<commits, commit_patterns>>
featureVars == <<features, complexity, hours>>
techVars == <<files, tech_stack, unique_tech, technology_stack>>
teamVars == <<developer_profiles, bus_factor>>
skillVars == <<author_stat, skill>>
debtVars == <<technical_debt>>
levelVars == <<level_args, complexity_level>>
pipelineVars == <<environment, pc, stages, analysis_data, raised, report>>
riskVars == <<structure, risk_assessment>>
dynamicsVars == <<team_dynamics>>
trendVars == <<commit_frequency_trend>>
layerVars == <<file_paths, layered_architecture>>
statsVars == <<author_stats>>
identVars == <<identified_features>>
extraVars == <<layerVars, statsVars, identVars, finished_runs>>
laterVars == <<pipelineVars, riskVars, dynamicsVars, trendVars, extraVars>>
moreVars == <<debtVars, levelVars, laterVars>>
vars == <<gitVars, featureVars, techVars, teamVars, skillVars, moreVars>>

(***************************************************************************)
(* Generic helpers                                                         *)
(***************************************************************************)

\* All sequences over S of length 0..n.
SeqUpTo(S, n) == UNION {[1..k -> S] : k \in 0..n}

Max(a, b) == IF a >= b THEN a ELSE b

(***************************************************************************)
(* Strings as character sequences                                          *)
(***************************************************************************)

\* str.lower() on one character (the upper-case letters the messages use).
LowerChar(c) ==
    CASE c = "A" -> "a" [] c = "B" -> "b" [] c = "C" -> "c" [] c = "D" -> "d"
      [] c = "E" -> "e" [] c = "F" -> "f" [] c = "G" -> "g" [] c = "H" -> "h"
      [] c = "I" -> "i" [] c = "J" -> "j" [] c = "K" -> "k" [] c = "L" -> "l"
      [] c = "M" -> "m" [] c = "N" -> "n" [] c = "O" -> "o" [] c = "P" -> "p"
      [] c = "Q" -> "q" [] c = "R" -> "r" [] c = "S" -> "s" [] c = "T" -> "t"
      [] c = "U" -> "u" [] c = "V" -> "v" [] c = "W" -> "w" [] c = "X" -> "x"
      [] c = "Y" -> "y" [] c = "Z" -> "z" [] OTHER -> c

\* str.lower()
Lower(s) == [i \in 1..Len(s) |-> LowerChar(s[i])]

\* Python's  pattern in text  for strings: pattern occurs as a substring.
Contains(text, pattern) ==
    \E i \in 1..(Len(text) - Len(pattern) + 1) :
        SubSeq(text, i, i + Len(pattern) - 1) = pattern

\* Python's  any(pattern in text for pattern in table).
AnyPatternIn(text, table) == \E i \in 1..Len(table) : Contains(text, table[i])

(***************************************************************************)
(* config.py: GitAnalysisConfig pattern tables (the defaults)              *)
(***************************************************************************)

FEATURE_PATTERNS ==
    << <<"f","e","a","t",":">>,
       <<"f","e","a","t","u","r","e",":">>,
       <<"a","d","d",":">>,
       <<"i","m","p","l","e","m","e","n","t",":">>,
       <<"n","e","w",":">>,
       <<"c","r","e","a","t","e",":">>,
       <<"b","u","i","l","d",":">> >>

BUG_FIX_PATTERNS ==
    << <<"f","i","x",":">>,
       <<"b","u","g","f","i","x",":">>,
       <<"b","u","g",":">>,
       <<"r","e","s","o","l","v","e",":">>,
       <<"p","a","t","c","h",":">>,
       <<"c","o","r","r","e","c","t",":">> >>

REFACTOR_PATTERNS ==
    << <<"r","e","f","a","c","t","o","r",":">>,
       <<"r","e","f","a","c","t","o","r",":">>,
       <<"c","l","e","a","n","u","p",":">>,
       <<"r","e","s","t","r","u","c","t","u","r","e",":">>,
       <<"o","p","t","i","m","i","z","e",":">> >>

DOCUMENTATION_PATTERNS ==
    << <<"d","o","c","s",":">>,
       <<"d","o","c","u","m","e","n","t","a","t","i","o","n",":">>,
       <<"r","e","a","d","m","e",":">>,
       <<"c","o","m","m","e","n","t",":">>,
       <<"u","p","d","a","t","e"," ","d","o","c","s",":">> >>

(***************************************************************************)
(* git_analyzer.py: _analyze_commit_patterns (the category counts)         *)
(***************************************************************************)

\* The if / elif chain with the feature table tested last.
ClassifyFeatureLast(message_lower) ==
    IF AnyPatternIn(message_lower, BUG_FIX_PATTERNS) THEN "bug_fix"
    ELSE IF AnyPatternIn(message_lower, REFACTOR_PATTERNS) THEN "refactor"
    ELSE IF AnyPatternIn(message_lower, DOCUMENTATION_PATTERNS) THEN "documentation"
    ELSE IF AnyPatternIn(message_lower, FEATURE_PATTERNS) THEN "feature"
    ELSE "other"

\* The if / elif chain of the loop body, for one lower-cased message: the
\* category whose counter is incremented, "other" when no branch is taken.
Classify(message_lower) ==
    IF AnyPatternIn(message_lower, FEATURE_PATTERNS) THEN "feature"
    ELSE IF AnyPatternIn(message_lower, BUG_FIX_PATTERNS) THEN "bug_fix"
    ELSE IF AnyPatternIn(message_lower, REFACTOR_PATTERNS) THEN "refactor"
    ELSE IF AnyPatternIn(message_lower, DOCUMENTATION_PATTERNS) THEN "documentation"
    ELSE "other"

\* The loop body with four independent tests in place of the elif chain.
CountCommitTwice(acc, commit) ==
    LET message_lower == Lower(commit.message)
    IN  [ feature_commits |-> acc.feature_commits
              + (IF AnyPatternIn(message_lower, FEATURE_PATTERNS) THEN 1 ELSE 0),
          bug_fix_commits |-> acc.bug_fix_commits
              + (IF AnyPatternIn(message_lower, BUG_FIX_PATTERNS) THEN 1 ELSE 0),
          refactor_commits |-> acc.refactor_commits
              + (IF AnyPatternIn(message_lower, REFACTOR_PATTERNS) THEN 1 ELSE 0),
          documentation_commits |-> acc.documentation_commits
              + (IF AnyPatternIn(message_lower, DOCUMENTATION_PATTERNS) THEN 1 ELSE 0),
          merge_commits |-> acc.merge_commits + (IF commit.is_merge THEN 1 ELSE 0) ]

\* One iteration of  for commit in commits : the counters after the commit.
CountCommit(acc, commit) ==
    LET kind == Classify(Lower(commit.message))
    IN  [ feature_commits |-> acc.feature_commits
              + (IF kind = "feature" THEN 1 ELSE 0),
          bug_fix_commits |-> acc.bug_fix_commits
              + (IF kind = "bug_fix" THEN 1 ELSE 0),
          refactor_commits |-> acc.refactor_commits
              + (IF kind = "refactor" THEN 1 ELSE 0),
          documentation_commits |-> acc.documentation_commits
              + (IF kind = "documentation" THEN 1 ELSE 0),
          merge_commits |-> acc.merge_commits + (IF commit.is_merge THEN 1 ELSE 0) ]

ZeroCounts ==
    [ feature_commits |-> 0, bug_fix_commits |-> 0, refactor_commits |-> 0,
      documentation_commits |-> 0, merge_commits |-> 0 ]

\* The loop over the commit list, in list order.
RECURSIVE CountCommits(_, _)
CountCommits(acc, cs) ==
    IF cs = <<>> THEN acc
    ELSE CountCommits(CountCommit(acc, Head(cs)), Tail(cs))

\* The counting fields of the CommitPattern that is returned; the empty list
\* takes the early return with every count 0.
analyze_commit_patterns(cs) ==
    IF cs = <<>>
    THEN [ total_commits |-> 0, feature_commits |-> 0, bug_fix_commits |-> 0,
           refactor_commits |-> 0, documentation_commits |-> 0,
           merge_commits |-> 0 ]
    ELSE LET n == CountCommits(ZeroCounts, cs)
         IN  [ total_commits |-> Len(cs),
               feature_commits |-> n.feature_commits,
               bug_fix_commits |-> n.bug_fix_commits,
               refactor_commits |-> n.refactor_commits,
               documentation_commits |-> n.documentation_commits,
               merge_commits |-> n.merge_commits ]

(***************************************************************************)
(* Commit inputs                                                           *)
(***************************************************************************)

MaxCommits == 3

MsgFeatAddLogin ==
    <<"f","e","a","t",":"," ","a","d","d"," ","l","o","g","i","n">>

MsgFixNullPointer ==
    <<"f","i","x",":"," ","n","u","l","l"," ","p","o","i","n","t","e","r">>

MsgDocsUpdateReadme ==
    <<"d","o","c","s",":"," ","u","p","d","a","t","e"," ","r","e","a","d","m","e">>

\* "Refactor: parser": matches only after lower-casing.
MsgRefactorParser ==
    <<"R","e","f","a","c","t","o","r",":"," ","p","a","r","s","e","r">>

\* "fix: FEAT: flag": matches the feature and the bugfix table.
MsgFixFeatFlag ==
    <<"f","i","x",":"," ","F","E","A","T",":"," ","f","l","a","g">>

\* "docs: fix: typo": matches the bugfix and the documentation table.
MsgDocsFixTypo ==
    <<"d","o","c","s",":"," ","f","i","x",":"," ","t","y","p","o">>

\* "update readme": matches no table.
MsgUpdateReadme ==
    <<"u","p","d","a","t","e"," ","r","e","a","d","m","e">>

Messages ==
    { MsgFeatAddLogin, MsgFixNullPointer, MsgDocsUpdateReadme, MsgRefactorParser,
      MsgFixFeatFlag, MsgDocsFixTypo, MsgUpdateReadme }

\* The fields of CommitInfo that _analyze_commit_patterns' counting reads:
\* every message on an ordinary commit, and merge commits whose messages
\* match two tables, one table and no table.
CommitInfo ==
    [message : Messages, is_merge : {FALSE}]
        \cup [message : {MsgFixFeatFlag, MsgDocsUpdateReadme, MsgUpdateReadme},
              is_merge : {TRUE}]

InitGit ==
    /\ commits \in SeqUpTo(CommitInfo, MaxCommits)
    /\ commit_patterns = <<>>

IdleGit ==
    /\ commits = <<>>
    /\ commit_patterns = <<>>

\* commit_patterns = self._analyze_commit_patterns(commits)
AnalyzeCommitPatterns ==
    /\ commit_patterns = <<>>
    /\ commit_patterns' = <<analyze_commit_patterns(commits)>>
    /\ UNCHANGED <<commits, featureVars, techVars, teamVars, skillVars, moreVars>>

(***************************************************************************)
(* config.py: ComplexityThresholds and AnalysisConfig                      *)
(***************************************************************************)

LOW_COMPLEXITY_LOC == 100

MEDIUM_COMPLEXITY_LOC == 500

LOW_COMPLEXITY_COMMITS == 3

MEDIUM_COMPLEXITY_COMMITS == 8

\* Hours per commit, in tenths of an hour (1.5, 3.0, 6.0).
LOW_COMPLEXITY_MULTIPLIER == 15

MEDIUM_COMPLEXITY_MULTIPLIER == 30

HIGH_COMPLEXITY_MULTIPLIER == 60

\* TOTAL_BUFFER = 0.20, in hundredths.
TOTAL_BUFFER == 20

ComplexityLevels == {"low", "medium", "high"}

\* The order low < medium < high.
ComplexityRank(c) == CASE c = "low" -> 1 [] c = "medium" -> 2 [] c = "high" -> 3

\* A variant in which either measure within the threshold suffices.
get_complexity_level_either(loc, commit_count) ==
    IF loc <= LOW_COMPLEXITY_LOC \/ commit_count <= LOW_COMPLEXITY_COMMITS
    THEN "low"
    ELSE IF loc <= MEDIUM_COMPLEXITY_LOC \/ commit_count <= MEDIUM_COMPLEXITY_COMMITS
    THEN "medium"
    ELSE "high"

get_complexity_level(loc, commit_count) ==
    IF loc <= LOW_COMPLEXITY_LOC /\ commit_count <= LOW_COMPLEXITY_COMMITS
    THEN "low"
    ELSE IF loc <= MEDIUM_COMPLEXITY_LOC /\ commit_count <= MEDIUM_COMPLEXITY_COMMITS
    THEN "medium"
    ELSE "high"

\* round(x, 1) on a non-negative quantity held in units of 0.0001: the
\* nearest multiple of 0.1 (1000 units).  A decimal tie goes to the even
\* tenth here; in the code the binary float nearest to the product decides
\* it, which the properties below do not depend on.
Round1(x) ==
    LET q == x \div 1000
        r == x % 1000
    IN  IF r < 500 THEN q * 1000
        ELSE IF r > 500 THEN (q + 1) * 1000
        ELSE IF q % 2 = 0 THEN q * 1000 ELSE (q + 1) * 1000

\* multipliers.get(complexity, 3.0), in tenths of an hour.
Multiplier(c) ==
    CASE c = "low" -> LOW_COMPLEXITY_MULTIPLIER
      [] c = "medium" -> MEDIUM_COMPLEXITY_MULTIPLIER
      [] c = "high" -> HIGH_COMPLEXITY_MULTIPLIER
      [] OTHER -> 30

\* Hours in units of 0.0001:  base_hours = multiplier * commit_count  is in
\* tenths,  base_hours * (1 + TOTAL_BUFFER)  in thousandths.
get_time_estimate(c, commit_count) ==
    LET base_hours == Multiplier(c) * commit_count
        total_hours == base_hours * (100 + TOTAL_BUFFER)
    IN  Round1(total_hours * 10)

(***************************************************************************)
(* feature_mapper.py: FeatureMapper                                        *)
(***************************************************************************)

\* _determine_risk_level on the feature data dict (lines_changed and the
\* optional dependencies entry, <<>> when the key is absent).
determine_risk_level(feature_data) ==
    IF feature_data.lines_changed > 1000 THEN "High"
    ELSE IF Len(feature_data.dependencies) > 5 THEN "High"
    ELSE IF feature_data.lines_changed > 500 THEN "Medium"
    ELSE IF Len(feature_data.dependencies) > 2 THEN "Medium"
    ELSE "Low"

\* The one-level escalation both adjustments of assess_complexity apply.
Escalate(c) ==
    IF c = "low" THEN "medium" ELSE IF c = "medium" THEN "high" ELSE c

\* assess_complexity with the dependency test inverted.
assess_complexity_few_dependencies(feature) ==
    LET base == get_complexity_level(feature.lines_of_code, feature.commit_count)
        c1 == IF feature.dependencies # <<>> /\ Len(feature.dependencies) <= 3
              THEN Escalate(base) ELSE base
    IN  IF feature.risk_level = "high" THEN Escalate(c1) ELSE c1

assess_complexity(feature) ==
    LET base == get_complexity_level(feature.lines_of_code, feature.commit_count)
        c1 == IF feature.dependencies # <<>> /\ Len(feature.dependencies) > 3
              THEN Escalate(base) ELSE base
    IN  IF feature.risk_level = "high" THEN Escalate(c1) ELSE c1

\* The adjustment factors of estimate_development_time, each in tenths.
BusinessValueFactor(feature) ==
    IF feature.business_value = "Critical" THEN 12
    ELSE IF feature.business_value = "Minimal" THEN 8
    ELSE 10

RiskFactor(feature) ==
    IF feature.risk_level = "High" THEN 13
    ELSE IF feature.risk_level = "Low" THEN 9
    ELSE 10

DependencyFactor(feature) ==
    IF feature.dependencies # <<>> THEN 10 + Len(feature.dependencies) ELSE 10

\* estimate_development_time without the final round(..., 1).
estimate_development_time_unrounded(feature) ==
    LET base_hours == get_time_estimate(feature.complexity, feature.commit_count)
        adjustments == BusinessValueFactor(feature) * RiskFactor(feature)
                           * DependencyFactor(feature)
    IN  (base_hours * adjustments) \div 1000

\* Hours in units of 0.0001.  adjustments is in thousandths and base_hours a
\* multiple of 1000 units, so the product divided by 1000 is exact.
estimate_development_time(feature) ==
    LET base_hours == get_time_estimate(feature.complexity, feature.commit_count)
        adjustments == BusinessValueFactor(feature) * RiskFactor(feature)
                           * DependencyFactor(feature)
    IN  Round1((base_hours * adjustments) \div 1000)

(***************************************************************************)
(* Feature inputs                                                          *)
(***************************************************************************)

MaxDependencies == 4

MaxCalls == 2

\* Values on both sides of every LOC and commit-count threshold.
LocInputs == {100, 101, 500, 501, 1200}

CommitCountInputs == {0, 3, 4, 8, 9}

\* A dependency list of n entries.
Dependencies(n) == [i \in 1..n |-> "dependency"]

DependencyLists == {Dependencies(n) : n \in 0..MaxDependencies}

FeatureDataInputs ==
    [lines_changed : {0, 501, 1001}, dependencies : {Dependencies(0)}]

\* The labels _determine_risk_level produces.
RiskLevels == {determine_risk_level(d) : d \in FeatureDataInputs}

RiskRank(r) == CASE r = "Low" -> 1 [] r = "Medium" -> 2 [] r = "High" -> 3

BusinessValues == {"Critical", "High", "Medium", "Low", "Minimal"}

\* The fields of Feature the two assessments read.
Feature ==
    [ lines_of_code : LocInputs, commit_count : CommitCountInputs,
      dependencies : DependencyLists, risk_level : RiskLevels,
      business_value : BusinessValues, complexity : ComplexityLevels ]

\* Two features equal in lines_of_code and commit_count, as constructed by
\* _create_feature_object before the second pass (complexity 'medium').
InitComplexity ==
    /\ features \in [1..2 -> Feature]
    /\ features[1].lines_of_code = features[2].lines_of_code
    /\ features[1].commit_count = features[2].commit_count
    /\ \A i \in 1..2 : /\ features[i].business_value = "Medium"
                       /\ features[i].complexity = "medium"
    /\ complexity = [i \in 1..2 |-> <<>>]
    /\ hours = [i \in 1..2 |-> <<>>]

\* One feature with every field estimate_development_time reads.
InitEstimate ==
    /\ features \in [1..1 -> Feature]
    /\ features[1].lines_of_code = 100
    /\ complexity = [i \in 1..1 |-> <<>>]
    /\ hours = [i \in 1..1 |-> <<>>]

IdleFeature ==
    /\ features = <<>>
    /\ complexity = <<>>
    /\ hours = <<>>

\* self.assess_complexity(features[i])
AssessComplexity(i) ==
    /\ complexity[i] = <<>>
    /\ complexity' = [complexity EXCEPT ![i] = <<assess_complexity(features[i])>>]
    /\ UNCHANGED <<features, hours, gitVars, techVars, teamVars, skillVars, moreVars>>

\* self.estimate_development_time(features[i]), called up to MaxCalls times.
EstimateDevelopmentTime(i) ==
    /\ Len(hours[i]) < MaxCalls
    /\ hours' = [hours EXCEPT
                     ![i] = Append(@, estimate_development_time(features[i]))]
    /\ UNCHANGED <<features, complexity, gitVars, techVars, teamVars, skillVars, moreVars>>

(***************************************************************************)
(* repo_analyzer.py: technology identification                             *)
(***************************************************************************)

\* Python's  x in list.
InList(x, s) == \E i \in 1..Len(s) : s[i] = x

\* A TechnologyInfo: confidence in hundredths, evidence a list of strings
\* (the version field, which deduplication neither reads nor writes, is left
\* out).
TechnologyInfo(name, category, confidence, evidence) ==
    [ name |-> name, category |-> category, confidence |-> confidence,
      evidence |-> evidence ]

\* A FileInfo is [path, name, extension, is_config, is_source, content]:
\* name is the last path component, content the dependency names or lines
\* read from the file, <<"unreadable">> when reading raises.
Unreadable(f) == f.content = <<"unreadable">>

analyze_package_json(f) ==
    IF Unreadable(f) THEN <<>>
    ELSE IF InList("react", f.content)
    THEN <<TechnologyInfo("React", "Frontend", 90, <<"Found in " \o f.name>>)>>
    ELSE IF InList("vue", f.content)
    THEN <<TechnologyInfo("Vue.js", "Frontend", 90, <<"Found in " \o f.name>>)>>
    ELSE IF InList("angular", f.content)
    THEN <<TechnologyInfo("Angular", "Frontend", 90, <<"Found in " \o f.name>>)>>
    ELSE IF InList("express", f.content)
    THEN <<TechnologyInfo("Express.js", "Backend", 80, <<"Found in " \o f.name>>)>>
    ELSE <<TechnologyInfo("Node.js", "Backend", 70, <<"Found " \o f.name>>)>>

\* The scan of the lines: the first line naming django or flask decides.
RECURSIVE RequirementsLines(_, _)
RequirementsLines(f, lines) ==
    IF lines = <<>>
    THEN <<TechnologyInfo("Python", "Backend", 80, <<"Found " \o f.name>>)>>
    ELSE IF Head(lines) = "django"
    THEN <<TechnologyInfo("Django", "Backend", 90, <<"Found in " \o f.name>>)>>
    ELSE IF Head(lines) = "flask"
    THEN <<TechnologyInfo("Flask", "Backend", 90, <<"Found in " \o f.name>>)>>
    ELSE RequirementsLines(f, Tail(lines))

analyze_requirements_txt(f) ==
    IF Unreadable(f) THEN <<>> ELSE RequirementsLines(f, f.content)

analyze_pom_xml(f) ==
    IF Unreadable(f) THEN <<>>
    ELSE IF InList("spring-boot", f.content)
    THEN <<TechnologyInfo("Spring Boot", "Backend", 90, <<"Found in " \o f.name>>)>>
    ELSE <<TechnologyInfo("Java", "Backend", 80, <<"Found " \o f.name>>)>>

analyze_go_mod(f) ==
    IF Unreadable(f) THEN <<>>
    ELSE IF InList("gin", f.content)
    THEN <<TechnologyInfo("Gin", "Backend", 90, <<"Found in " \o f.name>>)>>
    ELSE <<TechnologyInfo("Go", "Backend", 80, <<"Found " \o f.name>>)>>

analyze_cargo_toml(f) ==
    IF Unreadable(f) THEN <<>>
    ELSE <<TechnologyInfo("Rust", "Backend", 80, <<"Found " \o f.name>>)>>

\* file_path.name never starts with '.github/workflows/', so only the
\* Docker Compose branch can return an entry.
analyze_yaml_file(f) ==
    IF Unreadable(f) \/ f.content = <<>> THEN <<>>
    ELSE IF InList("services", f.content)
    THEN <<TechnologyInfo("Docker Compose", "Infrastructure", 90,
                          <<"Found in " \o f.name>>)>>
    ELSE <<>>

\* The body of the loop of _analyze_config_files for one file: the entries
\* appended to config_tech.
ConfigTechOf(f) ==
    IF ~f.is_config THEN <<>>
    ELSE IF f.name = "package.json" THEN analyze_package_json(f)
    ELSE IF f.name = "requirements.txt" THEN analyze_requirements_txt(f)
    ELSE IF f.name = "pom.xml" THEN analyze_pom_xml(f)
    ELSE IF f.name = "go.mod" THEN analyze_go_mod(f)
    ELSE IF f.name = "Cargo.toml" THEN analyze_cargo_toml(f)
    ELSE IF f.extension \in {".yml", ".yaml"} THEN analyze_yaml_file(f)
    ELSE <<>>

RECURSIVE analyze_config_files(_)
analyze_config_files(file_info_list) ==
    IF file_info_list = <<>> THEN <<>>
    ELSE ConfigTechOf(Head(file_info_list))
             \o analyze_config_files(Tail(file_info_list))

\* The keys of ext_counts in insertion order: the extensions of the source
\* files in order of first occurrence.
RECURSIVE SourceExtensions(_, _)
SourceExtensions(file_info_list, seen) ==
    IF file_info_list = <<>> THEN seen
    ELSE LET f == Head(file_info_list)
         IN  SourceExtensions(Tail(file_info_list),
                 IF f.is_source /\ ~InList(f.extension, seen)
                 THEN Append(seen, f.extension) ELSE seen)

ExtCount(file_info_list, ext) ==
    Cardinality({i \in 1..Len(file_info_list) :
                     file_info_list[i].is_source
                         /\ file_info_list[i].extension = ext})

\* The entry the second loop of _analyze_source_files appends for an
\* extension and its count.
SourceTechOf(ext, count) ==
    IF ext = ".py"
    THEN <<TechnologyInfo("Python", "Backend", 70,
               <<"Found " \o ToString(count) \o " Python files">>)>>
    ELSE IF ext \in {".js", ".jsx"}
    THEN <<TechnologyInfo("JavaScript/JSX", "Frontend", 70,
               <<"Found " \o ToString(count) \o " JavaScript/JSX files">>)>>
    ELSE IF ext \in {".ts", ".tsx"}
    THEN <<TechnologyInfo("TypeScript", "Frontend", 70,
               <<"Found " \o ToString(count) \o " TypeScript files">>)>>
    ELSE IF ext = ".java"
    THEN <<TechnologyInfo("Java", "Backend", 70,
               <<"Found " \o ToString(count) \o " Java files">>)>>
    ELSE IF ext = ".go"
    THEN <<TechnologyInfo("Go", "Backend", 70,
               <<"Found " \o ToString(count) \o " Go files">>)>>
    ELSE <<>>

RECURSIVE SourceTechLoop(_, _)
SourceTechLoop(file_info_list, exts) ==
    IF exts = <<>> THEN <<>>
    ELSE SourceTechOf(Head(exts), ExtCount(file_info_list, Head(exts)))
             \o SourceTechLoop(file_info_list, Tail(exts))

analyze_source_files(file_info_list) ==
    SourceTechLoop(file_info_list, SourceExtensions(file_info_list, <<>>))

\* The body of the loop of _analyze_build_files for one file.
BuildTechOf(f) ==
    IF ~f.is_config THEN <<>>
    ELSE IF f.name = "Makefile"
    THEN <<TechnologyInfo("Make", "Build Tools", 90, <<"Found " \o f.path>>)>>
    ELSE IF f.name = "webpack.config.js"
    THEN <<TechnologyInfo("Webpack", "Build Tools", 90, <<"Found " \o f.path>>)>>
    ELSE IF f.name = "vite.config.js"
    THEN <<TechnologyInfo("Vite", "Build Tools", 90, <<"Found " \o f.path>>)>>
    ELSE <<>>

RECURSIVE analyze_build_files(_)
analyze_build_files(file_info_list) ==
    IF file_info_list = <<>> THEN <<>>
    ELSE BuildTechOf(Head(file_info_list))
             \o analyze_build_files(Tail(file_info_list))

SameKey(a, b) == a.name = b.name /\ a.category = b.category

\* The loop body of _deduplicate_technologies keyed by the name alone.
DeduplicateStepByName(unique, tech) ==
    IF \E k \in 1..Len(unique) : unique[k].name = tech.name
    THEN [k \in 1..Len(unique) |->
             IF unique[k].name = tech.name
             THEN [unique[k] EXCEPT
                      !.evidence = @ \o tech.evidence,
                      !.confidence = Max(@, tech.confidence)]
             ELSE unique[k]]
    ELSE Append(unique, tech)

\* The loop body that merges the evidence and keeps the first confidence.
DeduplicateStepFirstConfidence(unique, tech) ==
    IF \E k \in 1..Len(unique) : SameKey(unique[k], tech)
    THEN [k \in 1..Len(unique) |->
             IF SameKey(unique[k], tech)
             THEN [unique[k] EXCEPT !.evidence = @ \o tech.evidence]
             ELSE unique[k]]
    ELSE Append(unique, tech)

\* The loop body of _deduplicate_technologies: tech_dict, in insertion
\* order, after one more entry of tech_list.
DeduplicateStep(unique, tech) ==
    IF \E k \in 1..Len(unique) : SameKey(unique[k], tech)
    THEN [k \in 1..Len(unique) |->
             IF SameKey(unique[k], tech)
             THEN [unique[k] EXCEPT
                      !.evidence = @ \o tech.evidence,
                      !.confidence = Max(@, tech.confidence)]
             ELSE unique[k]]
    ELSE Append(unique, tech)

RECURSIVE DeduplicateLoop(_, _)
DeduplicateLoop(unique, tech_list) ==
    IF tech_list = <<>> THEN unique
    ELSE DeduplicateLoop(DeduplicateStep(unique, Head(tech_list)), Tail(tech_list))

\* list(tech_dict.values()): the merged entries in order of first occurrence.
deduplicate_technologies(tech_list) == DeduplicateLoop(<<>>, tech_list)

\* sorted(..., key=confidence, reverse=True): stable, so entries of equal
\* confidence keep their order.
RECURSIVE InsertByConfidence(_, _)
InsertByConfidence(sorted, tech) ==
    IF sorted = <<>> THEN <<tech>>
    ELSE IF Head(sorted).confidence >= tech.confidence
    THEN <<Head(sorted)>> \o InsertByConfidence(Tail(sorted), tech)
    ELSE <<tech>> \o sorted

RECURSIVE SortByConfidence(_, _)
SortByConfidence(sorted, rest) ==
    IF rest = <<>> THEN sorted
    ELSE SortByConfidence(InsertByConfidence(sorted, Head(rest)), Tail(rest))

\* The list _identify_technology_stack hands to _deduplicate_technologies:
\* the three passes concatenated.
DetectionPasses(file_info_list) ==
    analyze_config_files(file_info_list)
        \o analyze_source_files(file_info_list)
        \o analyze_build_files(file_info_list)

(***************************************************************************)
(* Technology inputs                                                       *)
(***************************************************************************)

MaxFiles == 3

MaxTech == 3

FileInfo(path, name, extension, is_config, is_source, content) ==
    [ path |-> path, name |-> name, extension |-> extension,
      is_config |-> is_config, is_source |-> is_source, content |-> content ]

\* The files of the repository, flagged as _is_config_file and
\* _is_source_file flag them.
FileInputs ==
    { FileInfo("requirements.txt", "requirements.txt", ".txt", TRUE, FALSE,
               <<"requests">>),
      FileInfo("api/requirements.txt", "requirements.txt", ".txt", TRUE, FALSE,
               <<"requests", "pytest">>),
      FileInfo("web/requirements.txt", "requirements.txt", ".txt", TRUE, FALSE,
               <<"requests", "flask", "django">>),
      FileInfo("package.json", "package.json", ".json", TRUE, FALSE,
               <<"express", "react">>),
      FileInfo("app.py", "app.py", ".py", FALSE, TRUE, <<>>),
      FileInfo("lib/util.py", "util.py", ".py", FALSE, TRUE, <<>>),
      FileInfo("index.js", "index.js", ".js", FALSE, TRUE, <<>>),
      FileInfo("src/App.jsx", "App.jsx", ".jsx", FALSE, TRUE, <<>>),
      FileInfo("webpack.config.js", "webpack.config.js", ".js", TRUE, TRUE, <<>>) }

\* File lists of up to MaxFiles files with distinct paths, in any order.
FileLists ==
    {l \in SeqUpTo(FileInputs, MaxFiles) :
         \A i, j \in 1..Len(l) : i # j => l[i].path # l[j].path}

\* Entries for a direct call of _deduplicate_technologies.
TechnologyInputs ==
    [ name : {"Python", "Go"}, category : {"Backend", "Testing"},
      confidence : {70, 90},
      evidence : {<<"Found go.mod">>, <<"Found 2 Go files", "Found in go.sum">>} ]

InitTech ==
    /\ \/ files \in FileLists /\ tech_stack = <<>>
       \/ files = <<>> /\ tech_stack \in SeqUpTo(TechnologyInputs, MaxTech)
    /\ unique_tech = <<>>
    /\ technology_stack = <<>>

IdleTech ==
    /\ files = <<>>
    /\ tech_stack = <<>>
    /\ unique_tech = <<>>
    /\ technology_stack = <<>>

\* _identify_technology_stack(file_info_list, repo_path): the three passes,
\* the deduplication and the sort.
IdentifyTechnologyStack ==
    /\ unique_tech = <<>>
    /\ tech_stack = <<>>
    /\ tech_stack' = DetectionPasses(files)
    /\ unique_tech' = <<deduplicate_technologies(tech_stack')>>
    /\ technology_stack' = <<SortByConfidence(<<>>, unique_tech'[1])>>
    /\ UNCHANGED <<files, gitVars, featureVars, teamVars, skillVars, moreVars>>

\* _deduplicate_technologies(tech_stack), called on its own.
DeduplicateTechnologies ==
    /\ unique_tech = <<>>
    /\ files = <<>>
    /\ unique_tech' = <<deduplicate_technologies(tech_stack)>>
    /\ UNCHANGED <<files, tech_stack, technology_stack, gitVars, featureVars,
                   teamVars, skillVars, moreVars>>

(***************************************************************************)
(* developer_analyzer.py: business value, bus factor, skill level          *)
(***************************************************************************)

\* _assess_business_value on contribution_percentage
\* = commit_count / total_commits * 100, compared without rounding.
assess_business_value(commit_count, total_commits) ==
    IF commit_count * 100 >= 40 * total_commits THEN "Critical"
    ELSE IF commit_count * 100 >= 20 * total_commits THEN "High"
    ELSE IF commit_count * 100 >= 10 * total_commits THEN "Medium"
    ELSE IF commit_count * 100 >= 5 * total_commits THEN "Low"
    ELSE "Minimal"

\* The key of the sort of _calculate_bus_factor.
BusinessValueWeight(business_value) ==
    CASE business_value = "Critical" -> 5
      [] business_value = "High" -> 4
      [] business_value = "Medium" -> 3
      [] business_value = "Low" -> 2
      [] business_value = "Minimal" -> 1

\* sorted(developer_profiles, key=weight, reverse=True), stable.
RECURSIVE InsertByWeight(_, _)
InsertByWeight(sorted, profile) ==
    IF sorted = <<>> THEN <<profile>>
    ELSE IF BusinessValueWeight(Head(sorted).business_value)
                >= BusinessValueWeight(profile.business_value)
    THEN <<Head(sorted)>> \o InsertByWeight(Tail(sorted), profile)
    ELSE <<profile>> \o sorted

RECURSIVE SortByWeight(_, _)
SortByWeight(sorted, rest) ==
    IF rest = <<>> THEN sorted
    ELSE SortByWeight(InsertByWeight(sorted, Head(rest)), Tail(rest))

\* The loop  for profile in sorted_profiles : count one more profile and
\* break once  bus_factor >= total_contributors * 0.7.
RECURSIVE BusFactorLoop(_, _, _)
BusFactorLoop(sorted_profiles, bus_factor_so_far, total_contributors) ==
    IF sorted_profiles = <<>> THEN bus_factor_so_far
    ELSE LET b == bus_factor_so_far + 1
         IN  IF b * 10 >= total_contributors * 7 THEN b
             ELSE BusFactorLoop(Tail(sorted_profiles), b, total_contributors)

\* _calculate_bus_factor returning the count of the loop less one.
calculate_bus_factor_less_one(profiles) ==
    IF profiles = <<>> THEN 0
    ELSE BusFactorLoop(SortByWeight(<<>>, profiles), 0, Len(profiles)) - 1

calculate_bus_factor(profiles) ==
    IF profiles = <<>> THEN 0
    ELSE BusFactorLoop(SortByWeight(<<>>, profiles), 0, Len(profiles))

\* The score of _assess_skill_level with the contribution tiers tested by
\* two independent ifs.
skill_score_both_tiers(stat) ==
    (IF stat.commit_count >= 100 THEN 3
     ELSE IF stat.commit_count >= 50 THEN 2
     ELSE IF stat.commit_count >= 20 THEN 1 ELSE 0)
    + (IF stat.contribution_percentage >= 50 THEN 2 ELSE 0)
    + (IF stat.contribution_percentage >= 20 THEN 1 ELSE 0)
    + (IF stat.average_commit_size <= 50 THEN 2
       ELSE IF stat.average_commit_size <= 100 THEN 1 ELSE 0)

\* skill_score of _assess_skill_level.
skill_score(stat) ==
    (IF stat.commit_count >= 100 THEN 3
     ELSE IF stat.commit_count >= 50 THEN 2
     ELSE IF stat.commit_count >= 20 THEN 1 ELSE 0)
    + (IF stat.contribution_percentage >= 50 THEN 2
       ELSE IF stat.contribution_percentage >= 20 THEN 1 ELSE 0)
    + (IF stat.average_commit_size <= 50 THEN 2
       ELSE IF stat.average_commit_size <= 100 THEN 1 ELSE 0)

\* The score and the skill_level of the pair _assess_skill_level returns
\* (the description is a fixed sentence per level).
assess_skill_level(stat) ==
    LET score == skill_score(stat)
    IN  [ skill_score |-> score,
          skill_level |-> IF score >= 6 THEN "Expert"
                          ELSE IF score >= 4 THEN "Senior"
                          ELSE IF score >= 2 THEN "Mid-level"
                          ELSE "Junior" ]

(***************************************************************************)
(* Developer inputs                                                        *)
(***************************************************************************)

MaxTeam == 4

\* Commits per author: shares from under 5% to 100% of the total.
AuthorCommitCounts == {1, 3, 6, 12, 30}

\* The profiles of a team whose authors made the given numbers of commits:
\* the name and the business_value _create_developer_profile derives.
ProfilesOf(counts) ==
    LET RECURSIVE Total(_)
        Total(c) == IF c = <<>> THEN 0 ELSE Head(c) + Total(Tail(c))
    IN  [i \in 1..Len(counts) |->
            [ name |-> i,
              business_value |-> assess_business_value(counts[i], Total(counts)) ]]

InitTeam ==
    /\ developer_profiles \in
           {ProfilesOf(c) : c \in SeqUpTo(AuthorCommitCounts, MaxTeam)}
    /\ bus_factor = <<>>

IdleTeam ==
    /\ developer_profiles = <<>>
    /\ bus_factor = <<>>

\* bus_factor = self._calculate_bus_factor(developer_profiles)
CalculateBusFactor ==
    /\ bus_factor = <<>>
    /\ bus_factor' = <<calculate_bus_factor(developer_profiles)>>
    /\ UNCHANGED <<developer_profiles, gitVars, featureVars, techVars, skillVars, moreVars>>

\* Values on both sides of every tier of _assess_skill_level.
SkillCommitCounts == {0, 19, 20, 49, 50, 99, 100, 120}

SkillContributions == {0, 19, 20, 49, 50, 55, 100}

SkillCommitSizes == {0, 30, 50, 51, 100, 101}

\* The fields of AuthorStats that _assess_skill_level reads.
AuthorStats ==
    [ commit_count : SkillCommitCounts,
      contribution_percentage : SkillContributions,
      average_commit_size : SkillCommitSizes ]

InitSkill ==
    /\ author_stat \in AuthorStats
    /\ skill = <<>>

IdleSkill ==
    /\ author_stat = <<>>
    /\ skill = <<>>

\* self._assess_skill_level(author_stat, developer_commits)
AssessSkillLevel ==
    /\ skill = <<>>
    /\ skill' = <<assess_skill_level(author_stat)>>
    /\ UNCHANGED <<author_stat, gitVars, featureVars, techVars, teamVars, moreVars>>

(***************************************************************************)
(* risk_assessor.py: _assess_technical_debt                                *)
(***************************************************************************)

\* The word lists of the two message tests.
DebtWords ==
    << <<"r","e","f","a","c","t","o","r">>, <<"c","l","e","a","n","u","p">>,
       <<"t","e","c","h","n","i","c","a","l"," ","d","e","b","t">>,
       <<"l","e","g","a","c","y">> >>

FixWords ==
    << <<"f","i","x">>, <<"b","u","g">>, <<"p","a","t","c","h">>,
       <<"h","o","t","f","i","x">> >>

\* What one commit adds to debt_indicators, in tenths: 1 for a refactoring
\* word, 0.5 for more than 500 changed lines, 0.3 for a bug-fix word.
DebtIndicators(commit) ==
    LET message_lower == Lower(commit.message)
    IN  (IF AnyPatternIn(message_lower, DebtWords) THEN 10 ELSE 0)
        + (IF commit.lines_added + commit.lines_deleted > 500 THEN 5 ELSE 0)
        + (IF AnyPatternIn(message_lower, FixWords) THEN 3 ELSE 0)

RECURSIVE DebtIndicatorSum(_)
DebtIndicatorSum(cs) ==
    IF cs = <<>> THEN 0
    ELSE DebtIndicators(Head(cs)) + DebtIndicatorSum(Tail(cs))

\* A score is the exact quotient num / den, den > 0.
Ratio(num, den) == [num |-> num, den |-> den]

\* a / b without the cap.
UncappedRatio(a, b) == Ratio(a, b)

\* min(1.0, a / b) for b > 0
CappedRatio(a, b) == IF a >= b THEN Ratio(1, 1) ELSE Ratio(a, b)

\* debt_indicators / max(total_commits * 0.3, 1), numerator and denominator
\* both in tenths.
assess_technical_debt(cs) ==
    IF cs = <<>> THEN Ratio(0, 1)
    ELSE CappedRatio(DebtIndicatorSum(cs), Max(Len(cs) * 3, 10))

MaxDebtCommits == 4

\* "fix: legacy cleanup": a refactoring word and a bug-fix word.
MsgFixLegacyCleanup ==
    <<"f","i","x",":"," ","l","e","g","a","c","y"," ","c","l","e","a","n","u","p">>

\* The fields of CommitInfo that _assess_technical_debt reads: messages with
\* a refactoring word, a bug-fix word, both and neither, on commits of
\* exactly 500 and of 501 changed lines.
DebtCommitInfo ==
    [message : {MsgRefactorParser, MsgFixNullPointer, MsgFixLegacyCleanup,
                MsgUpdateReadme},
     lines_added : {400}, lines_deleted : {100, 101}]

InitDebt ==
    /\ commits \in SeqUpTo(DebtCommitInfo, MaxDebtCommits)
    /\ commit_patterns = <<>>
    /\ technical_debt = <<>>

IdleDebt == technical_debt = <<>>

\* technical_debt_score = self._assess_technical_debt(commits)
AssessTechnicalDebt ==
    /\ technical_debt = <<>>
    /\ technical_debt' = <<assess_technical_debt(commits)>>
    /\ UNCHANGED <<gitVars, featureVars, techVars, teamVars, skillVars, levelVars,
                   laterVars>>

(***************************************************************************)
(* config.py: get_complexity_level called on its own                       *)
(***************************************************************************)

\* Lines of code and commit counts at, below and above each threshold.
LevelLocInputs ==
    {0, 1200} \cup (LOW_COMPLEXITY_LOC - 1)..(LOW_COMPLEXITY_LOC + 1)
              \cup (MEDIUM_COMPLEXITY_LOC - 1)..(MEDIUM_COMPLEXITY_LOC + 1)

LevelCommitInputs ==
    {0, 20} \cup (LOW_COMPLEXITY_COMMITS - 1)..(LOW_COMPLEXITY_COMMITS + 1)
            \cup (MEDIUM_COMPLEXITY_COMMITS - 1)..(MEDIUM_COMPLEXITY_COMMITS + 1)

InitLevel ==
    /\ level_args \in [loc : LevelLocInputs, commit_count : LevelCommitInputs]
    /\ complexity_level = <<>>

IdleLevel ==
    /\ level_args = [loc |-> 0, commit_count |-> 0]
    /\ complexity_level = <<>>

\* self.config.get_complexity_level(loc, commit_count)
GetComplexityLevel ==
    /\ complexity_level = <<>>
    /\ complexity_level' =
           <<get_complexity_level(level_args.loc, level_args.commit_count)>>
    /\ UNCHANGED <<level_args, gitVars, featureVars, techVars, teamVars,
                   skillVars, debtVars, laterVars>>

(***************************************************************************)
(* Python values: objects, dicts and string methods                        *)
(***************************************************************************)

\* A dataclass instance is a record of its fields.  The dict that
\* _convert_to_dict makes of it holds the fields as items and has none of
\* them as an attribute: it is the record with the single field "dict".
convert_to_dict(obj) == [dict |-> obj]

\* [_convert_to_dict(x) for x in list]
convert_list(list) == [i \in 1..Len(list) |-> convert_to_dict(list[i])]

\* hasattr(x, name); reading a missing attribute raises AttributeError.
HasAttr(x, name) == name \in DOMAIN x

\* str.strip(chars) for a set of characters.
RECURSIVE StripLeft(_, _)
StripLeft(str, chars) ==
    IF str # <<>> /\ Head(str) \in chars THEN StripLeft(Tail(str), chars) ELSE str

RECURSIVE StripRight(_, _)
StripRight(str, chars) ==
    IF str # <<>> /\ str[Len(str)] \in chars
    THEN StripRight(SubSeq(str, 1, Len(str) - 1), chars) ELSE str

Strip(str, chars) == StripRight(StripLeft(str, chars), chars)

Whitespace == {" "}

\* str.split(): the maximal runs of non-blank characters.
RECURSIVE SplitFrom(_, _)
SplitFrom(str, word) ==
    IF str = <<>> THEN (IF word = <<>> THEN <<>> ELSE <<word>>)
    ELSE IF Head(str) \in Whitespace
    THEN (IF word = <<>> THEN <<>> ELSE <<word>>) \o SplitFrom(Tail(str), <<>>)
    ELSE SplitFrom(Tail(str), Append(word, Head(str)))

Split(str) == SplitFrom(str, <<>>)

\* str.find(pattern) as a 1-based position, 0 when absent.
Find(text, pattern) ==
    IF Contains(text, pattern)
    THEN CHOOSE i \in 1..Len(text) :
             /\ i + Len(pattern) - 1 <= Len(text)
             /\ SubSeq(text, i, i + Len(pattern) - 1) = pattern
             /\ \A j \in 1..(i - 1) :
                    SubSeq(text, j, j + Len(pattern) - 1) # pattern
    ELSE 0

\* list.index(x) as a 1-based position, 0 for ValueError.
IndexOf(list, x) ==
    IF InList(x, list)
    THEN CHOOSE i \in 1..Len(list) : list[i] = x /\ \A j \in 1..(i - 1) : list[j] # x
    ELSE 0

Letters ==
    {"a","b","c","d","e","f","g","h","i","j","k","l","m","n","o","p","q","r",
     "s","t","u","v","w","x","y","z"}

UpperChar(c) ==
    CASE c = "a" -> "A" [] c = "b" -> "B" [] c = "c" -> "C" [] c = "d" -> "D"
      [] c = "e" -> "E" [] c = "f" -> "F" [] c = "g" -> "G" [] c = "h" -> "H"
      [] c = "i" -> "I" [] c = "j" -> "J" [] c = "k" -> "K" [] c = "l" -> "L"
      [] c = "m" -> "M" [] c = "n" -> "N" [] c = "o" -> "O" [] c = "p" -> "P"
      [] c = "q" -> "Q" [] c = "r" -> "R" [] c = "s" -> "S" [] c = "t" -> "T"
      [] c = "u" -> "U" [] c = "v" -> "V" [] c = "w" -> "W" [] c = "x" -> "X"
      [] c = "y" -> "Y" [] c = "z" -> "Z" [] OTHER -> c

\* str.title(): a letter that follows a non-letter is upper-cased, every
\* other letter lower-cased.
Title(str) ==
    [i \in 1..Len(str) |->
        IF i = 1 \/ LowerChar(str[i - 1]) \notin Letters
        THEN UpperChar(LowerChar(str[i])) ELSE LowerChar(str[i])]

\* str.replace(old, new) for single characters.
ReplaceChar(str, old, new) == [i \in 1..Len(str) |-> IF str[i] = old THEN new ELSE str[i]]

(***************************************************************************)
(* feature_mapper.py: identify_features                                    *)
(***************************************************************************)

\* re.search(prefix + r'\(([^)]+)\):', message): group 1 of the leftmost
\* match, <<>> when there is none.  After  prefix(  the group runs to the
\* first  )  , which must be followed by  :  .
ConventionalScope(message, prefix) ==
    LET open == prefix \o <<"(">>
        closes(i) == {j \in (i + Len(open) + 1)..(Len(message) - 1) :
                         /\ message[j] = ")"
                         /\ message[j + 1] = ":"
                         /\ \A k \in (i + Len(open))..(j - 1) : message[k] # ")"}
        starts == {i \in 1..Len(message) :
                      /\ i + Len(open) - 1 <= Len(message)
                      /\ SubSeq(message, i, i + Len(open) - 1) = open
                      /\ closes(i) # {}}
    IN  IF starts = {} THEN <<>>
        ELSE LET i == CHOOSE x \in starts : \A y \in starts : x <= y
                 j == CHOOSE x \in closes(i) : TRUE
             IN  SubSeq(message, i + Len(open), j - 1)

ConventionalPrefixes ==
    << <<"f","e","a","t">>, <<"f","e","a","t","u","r","e">>, <<"a","d","d">>,
       <<"n","e","w">> >>

FeatureKeywords ==
    << <<"a","d","d">>, <<"i","m","p","l","e","m","e","n","t">>, <<"n","e","w">>,
       <<"c","r","e","a","t","e">>, <<"b","u","i","l","d">> >>

\* The keyword loop from keyword k on: the word after the first keyword that
\* is a word of the message and is not its last word.
RECURSIVE KeywordFeatureName(_, _)
KeywordFeatureName(message, k) ==
    IF k > Len(FeatureKeywords) THEN <<>>
    ELSE LET words == Split(message)
             idx == IndexOf(words, FeatureKeywords[k])
         IN  IF Contains(message, FeatureKeywords[k]) /\ idx > 0 /\ idx < Len(words)
             THEN Strip(words[idx + 1], {".", ",", ":"})
             ELSE KeywordFeatureName(message, k + 1)

\* _extract_feature_name_from_commit; <<>> stands for None and for the empty
\* name, which the caller treats alike (if feature_name:).  Messages are
\* single-line commit subjects.
extract_feature_name_from_commit(commit) ==
    LET message == Lower(commit.message)
        scoped == {k \in 1..Len(ConventionalPrefixes) :
                      ConventionalScope(message, ConventionalPrefixes[k]) # <<>>}
        feat == <<"f","e","a","t",":">>
        after == Strip(SubSeq(message, Find(message, feat) + 5, Len(message)),
                       Whitespace)
    IN  IF scoped # {}
        THEN Strip(ConventionalScope(message,
                       ConventionalPrefixes[CHOOSE k \in scoped : \A l \in scoped : k <= l]),
                   Whitespace)
        ELSE IF Contains(message, feat) /\ after # <<>> THEN after
        ELSE KeywordFeatureName(message, 1)

\* tag_patterns of _extract_tags_from_commit; the tags become a set.
TagPatterns ==
    <<
       [tag |-> "bugfix", keywords |->
           << <<"b","u","g">>,
              <<"f","i","x">>,
              <<"p","a","t","c","h">> >>],
       [tag |-> "feature", keywords |->
           << <<"f","e","a","t">>,
              <<"f","e","a","t","u","r","e">>,
              <<"a","d","d">>,
              <<"n","e","w">> >>],
       [tag |-> "refactor", keywords |->
           << <<"r","e","f","a","c","t","o","r">>,
              <<"r","e","f","a","c","t","o","r">>,
              <<"c","l","e","a","n","u","p">> >>],
       [tag |-> "documentation", keywords |->
           << <<"d","o","c","s">>,
              <<"d","o","c","u","m","e","n","t","a","t","i","o","n">>,
              <<"r","e","a","d","m","e">> >>],
       [tag |-> "testing", keywords |->
           << <<"t","e","s","t">>,
              <<"t","e","s","t","i","n","g">>,
              <<"s","p","e","c">> >>],
       [tag |-> "performance", keywords |->
           << <<"p","e","r","f">>,
              <<"p","e","r","f","o","r","m","a","n","c","e">>,
              <<"o","p","t","i","m","i","z","e">> >>],
       [tag |-> "security", keywords |->
           << <<"s","e","c","u","r","i","t","y">>,
              <<"s","e","c","u","r","e">>,
              <<"v","u","l","n","e","r","a","b","i","l","i","t","y">> >>] >>

extract_tags_from_commit(commit) ==
    {TagPatterns[k].tag : k \in {l \in 1..Len(TagPatterns) :
                                    AnyPatternIn(Lower(commit.message), TagPatterns[l].keywords)}}

\* An entry of the features dict: the name and its data.  A date that is
\* None is <<>>, a date d is <<d>>.
NewFeatureData ==
    [commits |-> <<>>, lines_changed |-> 0, start_date |-> <<>>,
     end_date |-> <<>>, tags |-> {}]

HasKey(table, name) == \E i \in 1..Len(table) : table[i].name = name

\* The loop body with an end date that only a later commit sets.
AddCommitToFeatureEndLater(data, commit) ==
    [commits |-> Append(data.commits, commit),
     lines_changed |-> data.lines_changed + commit.lines_added + commit.lines_deleted,
     start_date |-> IF data.start_date = <<>>
                       \/ commit.date.day < data.start_date[1].day
                    THEN <<commit.date>> ELSE data.start_date,
     end_date |-> IF data.start_date # <<>>
                     /\ commit.date.day > data.start_date[1].day
                     /\ (data.end_date = <<>> \/ commit.date.day > data.end_date[1].day)
                  THEN <<commit.date>> ELSE data.end_date,
     tags |-> data.tags \cup extract_tags_from_commit(commit)]

\* The loop body of _extract_features_from_commits for a commit with a name.
AddCommitToFeature(data, commit) ==
    [commits |-> Append(data.commits, commit),
     lines_changed |-> data.lines_changed + commit.lines_added + commit.lines_deleted,
     start_date |-> IF data.start_date = <<>>
                       \/ commit.date.day < data.start_date[1].day
                    THEN <<commit.date>> ELSE data.start_date,
     end_date |-> IF data.end_date = <<>>
                     \/ commit.date.day > data.end_date[1].day
                  THEN <<commit.date>> ELSE data.end_date,
     tags |-> data.tags \cup extract_tags_from_commit(commit)]

RECURSIVE FeaturesFromCommits(_, _)
FeaturesFromCommits(table, cs) ==
    IF cs = <<>> THEN table
    ELSE LET commit == Head(cs)
             feature_name == extract_feature_name_from_commit(commit)
             withName == IF HasKey(table, feature_name) THEN table
                         ELSE Append(table, [name |-> feature_name,
                                             data |-> NewFeatureData])
             updated == [i \in 1..Len(withName) |->
                            IF withName[i].name = feature_name
                            THEN [name |-> feature_name,
                                  data |-> AddCommitToFeature(withName[i].data, commit)]
                            ELSE withName[i]]
         IN  FeaturesFromCommits(IF feature_name = <<>> THEN table ELSE updated,
                                 Tail(cs))

extract_features_from_commits(cs) == FeaturesFromCommits(<<>>, cs)

FeatureIndicators ==
    << <<"f","e","a","t","u","r","e">>, <<"c","o","m","p","o","n","e","n","t">>,
       <<"m","o","d","u","l","e">>, <<"s","e","r","v","i","c","e">>, <<"a","p","i">>,
       <<"c","o","n","t","r","o","l","l","e","r">>, <<"m","o","d","e","l">>,
       <<"v","i","e","w">>, <<"p","a","g","e">>, <<"s","c","r","e","e","n">> >>

is_feature_directory(directory) == AnyPatternIn(Lower(directory), FeatureIndicators)

DirectoryPrefixes ==
    << <<"s","r","c","/">>, <<"a","p","p","/">>,
       <<"c","o","m","p","o","n","e","n","t","s","/">>,
       <<"f","e","a","t","u","r","e","s","/">>, <<"m","o","d","u","l","e","s","/">> >>

DirectorySuffixes ==
    << <<"/">>, <<"-","c","o","m","p","o","n","e","n","t">>,
       <<"-","m","o","d","u","l","e">>, <<"-","f","e","a","t","u","r","e">> >>

StartsWith(str, prefix) ==
    Len(prefix) <= Len(str) /\ SubSeq(str, 1, Len(prefix)) = prefix

EndsWith(str, suffix) ==
    Len(suffix) <= Len(str)
        /\ SubSeq(str, Len(str) - Len(suffix) + 1, Len(str)) = suffix

\* The first prefix (suffix) of the list that the name starts (ends) with is
\* removed.
RemoveFirstPrefix(name) ==
    LET hits == {k \in 1..Len(DirectoryPrefixes) : StartsWith(name, DirectoryPrefixes[k])}
    IN  IF hits = {} THEN name
        ELSE SubSeq(name,
                 Len(DirectoryPrefixes[CHOOSE k \in hits : \A l \in hits : k <= l]) + 1,
                 Len(name))

RemoveFirstSuffix(name) ==
    LET hits == {k \in 1..Len(DirectorySuffixes) : EndsWith(name, DirectorySuffixes[k])}
    IN  IF hits = {} THEN name
        ELSE SubSeq(name, 1,
                 Len(name) - Len(DirectorySuffixes[CHOOSE k \in hits : \A l \in hits : k <= l]))

extract_feature_name_from_directory(directory) ==
    Title(ReplaceChar(ReplaceChar(RemoveFirstSuffix(RemoveFirstPrefix(directory)),
                                  "-", " "), "_", " "))

\* A structure entry that also carries the marker tag of the backend API.
StructureFeatureDataWithApi ==
    [commits |-> <<>>, lines_changed |-> 0, start_date |-> <<>>,
     end_date |-> <<>>, tags |-> {"structure-based", "api"}]

StructureFeatureData ==
    [commits |-> <<>>, lines_changed |-> 0, start_date |-> <<>>,
     end_date |-> <<>>, tags |-> {"structure-based"}]

\* _extract_features_from_structure: a dict, so a name met twice keeps its
\* first position.
RECURSIVE FeaturesFromStructure(_, _)
FeaturesFromStructure(table, directories) ==
    IF directories = <<>> THEN table
    ELSE LET feature_name == extract_feature_name_from_directory(Head(directories))
         IN  FeaturesFromStructure(
                 IF is_feature_directory(Head(directories)) /\ feature_name # <<>>
                    /\ ~HasKey(table, feature_name)
                 THEN Append(table, [name |-> feature_name, data |-> StructureFeatureData])
                 ELSE table,
                 Tail(directories))

extract_features_from_structure(repo_structure) ==
    FeaturesFromStructure(<<>>, repo_structure.dict.directories)

RECURSIVE merge_features(_, _)
merge_features(merged, dir_features) ==
    IF dir_features = <<>> THEN merged
    ELSE LET d == Head(dir_features)
         IN  merge_features(
                 IF HasKey(merged, d.name)
                 THEN [i \in 1..Len(merged) |->
                          IF merged[i].name = d.name
                          THEN [name |-> d.name,
                                data |-> [merged[i].data EXCEPT
                                              !.tags = @ \cup d.data.tags]]
                          ELSE merged[i]]
                 ELSE Append(merged, d),
                 Tail(dir_features))

HighValueKeywords ==
    << <<"a","u","t","h">>, <<"p","a","y","m","e","n","t">>, <<"u","s","e","r">>,
       <<"c","o","r","e">>, <<"m","a","i","n">>, <<"c","r","i","t","i","c","a","l">> >>

\* _determine_business_value: both remaining branches return 'Medium'.
determine_business_value(feature_name) ==
    IF AnyPatternIn(Lower(feature_name), HighValueKeywords) THEN "High" ELSE "Medium"

determine_priority(feature_name) ==
    LET business_value == determine_business_value(feature_name)
    IN  IF business_value = "High" THEN "High"
        ELSE IF business_value = "Medium" THEN "Medium" ELSE "Low"

determine_feature_status(feature_data) ==
    IF feature_data.end_date # <<>> THEN "completed"
    ELSE IF feature_data.start_date # <<>> THEN "in_progress"
    ELSE "planned"

\* _extract_dependencies: one entry per marker tag.
extract_dependencies(feature_data) ==
    (IF "api" \in feature_data.tags THEN <<"Backend API">> ELSE <<>>)
        \o (IF "database" \in feature_data.tags THEN <<"Database">> ELSE <<>>)
        \o (IF "ui" \in feature_data.tags THEN <<"UI Components">> ELSE <<>>)

\* _create_feature_object: the Feature as constructed, then complexity and
\* estimated_hours assigned.  The features dict carries no 'dependencies'
\* key, so _determine_risk_level reads the default [].
create_feature_object(feature_name, feature_data) ==
    LET draft == [ name |-> feature_name,
                   complexity |-> "medium",
                   status |-> determine_feature_status(feature_data),
                   estimated_hours |-> 0,
                   commit_count |-> Len(feature_data.commits),
                   lines_of_code |-> feature_data.lines_changed,
                   business_value |-> determine_business_value(feature_name),
                   priority |-> determine_priority(feature_name),
                   risk_level |-> determine_risk_level(
                                      [lines_changed |-> feature_data.lines_changed,
                                       dependencies |-> <<>>]),
                   dependencies |-> extract_dependencies(feature_data),
                   tags |-> feature_data.tags ]
        assessed == [draft EXCEPT !.complexity = assess_complexity(draft)]
    IN  [assessed EXCEPT !.estimated_hours = estimate_development_time(assessed)]

\* sorted(features, key=estimated_hours, reverse=True), stable.
RECURSIVE InsertByHours(_, _)
InsertByHours(sorted, feature) ==
    IF sorted = <<>> THEN <<feature>>
    ELSE IF Head(sorted).estimated_hours >= feature.estimated_hours
    THEN <<Head(sorted)>> \o InsertByHours(Tail(sorted), feature)
    ELSE <<feature>> \o sorted

RECURSIVE SortByHours(_, _)
SortByHours(sorted, rest) ==
    IF rest = <<>> THEN sorted
    ELSE SortByHours(InsertByHours(sorted, Head(rest)), Tail(rest))

identify_features(cs, repo_structure) ==
    LET all_features == merge_features(extract_features_from_commits(cs),
                                       extract_features_from_structure(repo_structure))
    IN  SortByHours(<<>>, [i \in 1..Len(all_features) |->
                              create_feature_object(all_features[i].name,
                                                    all_features[i].data)])

(***************************************************************************)
(* git_analyzer.py: the history provider and analyze_developers            *)
(***************************************************************************)

\* The day datetime.now() falls on.
Today == 40

\* A datetime is its day number and whether it carries a UTC offset.
\* datetime.fromisoformat reads git's "--date=iso" text as an offset-aware
\* value on the interpreters that accept that form; on the others it raises
\* ValueError and the date becomes the naive datetime.now().
ParseDate(day, accepted) ==
    IF accepted THEN [day |-> day, aware |-> TRUE]
    ELSE [day |-> Today, aware |-> FALSE]

MergeWord == <<"m","e","r","g","e">>

\* The CommitInfo built for one entry of the git log output.
ParseLogEntry(entry, accepted) ==
    [ author |-> entry.author,
      date |-> ParseDate(entry.day, accepted),
      message |-> entry.message,
      lines_added |-> entry.lines_added,
      lines_deleted |-> entry.lines_deleted,
      is_merge |-> Contains(Lower(entry.message), MergeWord) ]

\* _get_commit_history: a git log that exits non-zero or times out gives the
\* empty list.
get_commit_history(history, log, accepted) ==
    IF history = "ok" THEN [i \in 1..Len(log) |-> ParseLogEntry(log[i], accepted)]
    ELSE <<>>

\* The authors of the commits in order of first appearance (dict order).
RECURSIVE AuthorsOf(_, _)
AuthorsOf(seen, cs) ==
    IF cs = <<>> THEN seen
    ELSE AuthorsOf(IF InList(Head(cs).author, seen) THEN seen
                   ELSE Append(seen, Head(cs).author), Tail(cs))

CommitsBy(cs, author) == SelectSeq(cs, LAMBDA c : c.author = author)

MinDay(cs) == CHOOSE d \in {cs[i].date.day : i \in 1..Len(cs)} :
                  \A i \in 1..Len(cs) : d <= cs[i].date.day

MaxDay(cs) == CHOOSE d \in {cs[i].date.day : i \in 1..Len(cs)} :
                  \A i \in 1..Len(cs) : d >= cs[i].date.day

\* One AuthorStats; commit_frequency = commit_count / max(duration, 1) and
\* contribution_percentage = commit_count / total_commits * 100 are kept as
\* exact quotients.
AuthorStatsOf(cs, author) ==
    LET own == CommitsBy(cs, author)
    IN  [ name |-> author,
          commit_count |-> Len(own),
          first_commit |-> MinDay(own),
          last_commit |-> MaxDay(own),
          commit_frequency |-> Ratio(Len(own), Max(MaxDay(own) - MinDay(own), 1)),
          contribution_percentage |-> Ratio(Len(own) * 100, Len(cs)) ]

\* sorted(author_list, key=contribution_percentage, reverse=True), stable.
RECURSIVE InsertByContribution(_, _)
InsertByContribution(sorted, stat) ==
    IF sorted = <<>> THEN <<stat>>
    ELSE IF Head(sorted).commit_count >= stat.commit_count
    THEN <<Head(sorted)>> \o InsertByContribution(Tail(sorted), stat)
    ELSE <<stat>> \o sorted

RECURSIVE SortByContribution(_, _)
SortByContribution(sorted, rest) ==
    IF rest = <<>> THEN sorted
    ELSE SortByContribution(InsertByContribution(sorted, Head(rest)), Tail(rest))

\* The statistics in the order in which the authors first appear.
analyze_developers_unsorted(cs) ==
    LET authors == AuthorsOf(<<>>, cs)
    IN  [i \in 1..Len(authors) |-> AuthorStatsOf(cs, authors[i])]

analyze_developers(cs) ==
    LET authors == AuthorsOf(<<>>, cs)
    IN  SortByContribution(<<>>, [i \in 1..Len(authors) |-> AuthorStatsOf(cs, authors[i])])

(***************************************************************************)
(* developer_analyzer.py: analyze_developers                               *)
(***************************************************************************)

\* _determine_contribution_pattern.  The gaps between the sorted dates add
\* up to last - first, so avg_gap <= g reads  last - first <= g * (n - 1).
contribution_frequency(stat) ==
    LET f == stat.commit_frequency
    IN  IF f.num * 10 >= 10 * f.den THEN "High frequency"
        ELSE IF f.num * 10 >= 5 * f.den THEN "Regular"
        ELSE IF f.num * 10 >= 2 * f.den THEN "Occasional"
        ELSE "Infrequent"

contribution_consistency(developer_commits) ==
    LET span == MaxDay(developer_commits) - MinDay(developer_commits)
        gaps == Len(developer_commits) - 1
    IN  IF span <= 3 * gaps THEN "consistent"
        ELSE IF span <= 7 * gaps THEN "moderately consistent"
        ELSE "sporadic"

determine_contribution_pattern(stat, developer_commits) ==
    IF developer_commits = <<>> THEN "No contributions"
    ELSE IF Len(developer_commits) < 2 THEN "Single contribution"
    ELSE contribution_frequency(stat) \o ", "
             \o contribution_consistency(developer_commits) \o " contributor"

\* The position of a contribution pattern in the lexicographic order of
\* the strings, which the final sort of analyze_developers uses as its key.
ContributionPatternRank(stat, developer_commits) ==
    IF developer_commits = <<>> THEN 30
    ELSE IF Len(developer_commits) < 2 THEN 60
    ELSE (CASE contribution_frequency(stat) = "High frequency" -> 10
            [] contribution_frequency(stat) = "Infrequent" -> 20
            [] contribution_frequency(stat) = "Occasional" -> 40
            [] OTHER -> 50)
         + (CASE contribution_consistency(developer_commits) = "consistent" -> 1
              [] contribution_consistency(developer_commits) = "moderately consistent" -> 2
              [] OTHER -> 3)

\* _create_developer_profile: the fields later stages read.
create_developer_profile(stat, cs) ==
    LET developer_commits == CommitsBy(cs, stat.name)
    IN  [ name |-> stat.name,
          contribution_pattern |->
              determine_contribution_pattern(stat, developer_commits),
          pattern_rank |-> ContributionPatternRank(stat, developer_commits),
          last_contribution |-> stat.last_commit,
          business_value |->
              assess_business_value(stat.commit_count, Len(cs)) ]

\* sorted(developer_profiles, key=contribution_pattern, reverse=True), stable.
RECURSIVE InsertByPattern(_, _)
InsertByPattern(sorted, profile) ==
    IF sorted = <<>> THEN <<profile>>
    ELSE IF Head(sorted).pattern_rank >= profile.pattern_rank
    THEN <<Head(sorted)>> \o InsertByPattern(Tail(sorted), profile)
    ELSE <<profile>> \o sorted

RECURSIVE SortByPattern(_, _)
SortByPattern(sorted, rest) ==
    IF rest = <<>> THEN sorted
    ELSE SortByPattern(InsertByPattern(sorted, Head(rest)), Tail(rest))

create_developer_profiles(cs, stats) ==
    SortByPattern(<<>>, [i \in 1..Len(stats) |->
                            create_developer_profile(stats[i], cs)])

(***************************************************************************)
(* risk_assessor.py: assess_project_risks                                  *)
(***************************************************************************)

\* Comparisons of an exact quotient with the decimal a / 10.
Above(r, a) == r.num * 10 > a * r.den

Below(r, a) == r.num * 10 < a * r.den

AtLeast(r, a) == r.num * 10 >= a * r.den

\* 1.0 - r
Complement(r) == Ratio(r.den - r.num, r.den)

Risk(id, category, risk_score) ==
    [id |-> id, category |-> category, risk_score |-> risk_score]

\* len(d.split('/'))
PathDepth(directory) == Len(SelectSeq(directory, LAMBDA c : c = "/")) + 1

\* _assess_architecture_complexity, in tenths.
assess_architecture_complexity(repo_structure) ==
    LET directories == repo_structure.dict.directories
        max_depth == IF directories = <<>> THEN 1
                     ELSE CHOOSE d \in {PathDepth(directories[i]) : i \in 1..Len(directories)} :
                              \A i \in 1..Len(directories) : d >= PathDepth(directories[i])
        tech == Len(repo_structure.dict.technology_stack)
        types == Cardinality(repo_structure.dict.file_types)
        score == (IF max_depth > 5 THEN 4 ELSE IF max_depth > 3 THEN 2 ELSE 0)
                 + (IF tech > 5 THEN 3 ELSE IF tech > 3 THEN 2 ELSE 0)
                 + (IF types > 10 THEN 3 ELSE IF types > 5 THEN 2 ELSE 0)
    IN  Ratio(IF score < 10 THEN score ELSE 10, 10)

TestWords ==
    << <<"t","e","s","t">>, <<"t","e","s","t","i","n","g">>, <<"s","p","e","c">>,
       <<"u","n","i","t">>, <<"i","n","t","e","g","r","a","t","i","o","n">> >>

\* A coverage estimate that takes an empty history as fully covered.
assess_testing_coverage_empty_covered(cs) ==
    IF cs = <<>> THEN Ratio(1, 1)
    ELSE CappedRatio(
             3 * Len(SelectSeq(cs, LAMBDA c : AnyPatternIn(Lower(c.message), TestWords))),
             Len(cs))

\* _assess_testing_coverage: min(test_commits / total_commits * 3, 1.0)
assess_testing_coverage(cs) ==
    IF cs = <<>> THEN Ratio(0, 1)
    ELSE CappedRatio(
             3 * Len(SelectSeq(cs, LAMBDA c : AnyPatternIn(Lower(c.message), TestWords))),
             Len(cs))

\* _assess_dependency_risks: return False  # Placeholder
assess_dependency_risks(repo_structure) == FALSE

identify_technical_risks(cs, feature_list, repo_structure) ==
    LET high == Len(SelectSeq(feature_list, LAMBDA f : f.complexity = "high"))
        debt == assess_technical_debt(cs)
        arch == assess_architecture_complexity(repo_structure)
        coverage == assess_testing_coverage(cs)
    IN  (IF high > 0
         THEN <<Risk("TECH_001", "technical",
                     Ratio(IF 2 * high < 8 THEN 2 * high ELSE 8, 10))>>
         ELSE <<>>)
        \o (IF Above(debt, 6) THEN <<Risk("TECH_002", "technical", debt)>> ELSE <<>>)
        \o (IF Above(arch, 7) THEN <<Risk("TECH_003", "technical", arch)>> ELSE <<>>)
        \o (IF Below(coverage, 5)
            THEN <<Risk("TECH_004", "technical", Complement(coverage))>> ELSE <<>>)
        \o (IF assess_dependency_risks(repo_structure)
            THEN <<Risk("TECH_005", "technical", Ratio(6, 10))>> ELSE <<>>)

\* _assess_knowledge_concentration
assess_knowledge_concentration(profiles) ==
    IF profiles = <<>> THEN Ratio(0, 1)
    ELSE Ratio(Len(SelectSeq(profiles,
                   LAMBDA p : p.business_value \in {"Critical", "High"})),
               Len(profiles))

\* c.date > datetime.now() - timedelta(days=30)  raises TypeError when
\* c.date is offset-aware, datetime.now() being naive.
ComparesAwareWithNow(cs) == \E i \in 1..Len(cs) : cs[i].date.aware

\* _assess_team_stability, where it does not raise.
assess_team_stability(profiles, cs) ==
    LET recent == SelectSeq(cs, LAMBDA c : c.date.day > Today - 30)
    IN  IF profiles = <<>> \/ cs = <<>> \/ recent = <<>> THEN Ratio(0, 1)
        ELSE Ratio(Cardinality({recent[i].author : i \in 1..Len(recent)}),
                   Len(profiles))

ConventionalMarks ==
    << <<"f","e","a","t",":">>, <<"f","i","x",":">>, <<"d","o","c","s",":">>,
       <<"r","e","f","a","c","t","o","r",":">> >>

\* The score of one message, in tenths.
MessageScore(c) ==
    5 + (IF Len(Strip(c.message, Whitespace)) >= 15 THEN 2 ELSE 0)
      + (IF AnyPatternIn(Lower(Strip(c.message, Whitespace)), ConventionalMarks)
         THEN 3 ELSE 0)

RECURSIVE MessageScoreSum(_)
MessageScoreSum(cs) ==
    IF cs = <<>> THEN 0 ELSE MessageScore(Head(cs)) + MessageScoreSum(Tail(cs))

\* _assess_communication_quality
assess_communication_quality(cs) ==
    IF cs = <<>> THEN Ratio(0, 1) ELSE Ratio(MessageScoreSum(cs), 10 * Len(cs))

\* _assess_skill_gaps: return []  # Placeholder
assess_skill_gaps(profiles) == <<>>

\* _identify_team_risks, where _assess_team_stability does not raise.
identify_team_risks(profiles, cs) ==
    LET concentration == assess_knowledge_concentration(profiles)
        stability == assess_team_stability(profiles, cs)
        communication == assess_communication_quality(cs)
    IN  IF profiles = <<>> THEN <<>>
        ELSE (IF Above(concentration, 7)
              THEN <<Risk("TEAM_001", "team", concentration)>> ELSE <<>>)
             \o (IF Below(stability, 5)
                 THEN <<Risk("TEAM_002", "team", Complement(stability))>> ELSE <<>>)
             \o (IF assess_skill_gaps(profiles) # <<>>
                 THEN <<Risk("TEAM_003", "team", Ratio(6, 10))>> ELSE <<>>)
             \o (IF Below(communication, 6)
                 THEN <<Risk("TEAM_004", "team", Complement(communication))>>
                 ELSE <<>>)

\* A scope-creep estimate above the 0.6 threshold of BUS_001.
assess_scope_creep_growing(feature_list, cs) ==
    IF feature_list = <<>> \/ cs = <<>> THEN Ratio(0, 1) ELSE Ratio(7, 10)

\* _assess_scope_creep and _assess_resource_constraints: placeholders.
assess_scope_creep(feature_list, cs) ==
    IF feature_list = <<>> \/ cs = <<>> THEN Ratio(0, 1) ELSE Ratio(3, 10)

assess_resource_constraints(cs, feature_list) ==
    IF cs = <<>> \/ feature_list = <<>> THEN Ratio(0, 1) ELSE Ratio(4, 10)

\* The timeline estimate without the cap at 1.0.
assess_timeline_risks_uncapped(feature_list) ==
    LET high == Len(SelectSeq(feature_list, LAMBDA f : f.complexity = "high"))
        additional ==
            (IF \E i \in 1..Len(feature_list) : feature_list[i].risk_level = "High"
             THEN 2 ELSE 0)
            + (IF \E i \in 1..Len(feature_list) : feature_list[i].dependencies # <<>>
               THEN 1 ELSE 0)
    IN  IF feature_list = <<>> THEN Ratio(0, 1)
        ELSE Ratio(10 * high + additional * Len(feature_list), 10 * Len(feature_list))

\* _assess_timeline_risks: min(complexity_risk + additional_risk, 1.0)
assess_timeline_risks(feature_list) ==
    LET high == Len(SelectSeq(feature_list, LAMBDA f : f.complexity = "high"))
        additional ==
            (IF \E i \in 1..Len(feature_list) : feature_list[i].risk_level = "High"
             THEN 2 ELSE 0)
            + (IF \E i \in 1..Len(feature_list) : feature_list[i].dependencies # <<>>
               THEN 1 ELSE 0)
    IN  IF feature_list = <<>> THEN Ratio(0, 1)
        ELSE CappedRatio(10 * high + additional * Len(feature_list),
                         10 * Len(feature_list))

identify_business_risks(feature_list, cs) ==
    LET scope == assess_scope_creep(feature_list, cs)
        timeline == assess_timeline_risks(feature_list)
        resources == assess_resource_constraints(cs, feature_list)
    IN  (IF Above(scope, 6) THEN <<Risk("BUS_001", "business", scope)>> ELSE <<>>)
        \o (IF Above(timeline, 7) THEN <<Risk("BUS_002", "business", timeline)>>
            ELSE <<>>)
        \o (IF Above(resources, 6) THEN <<Risk("BUS_003", "business", resources)>>
            ELSE <<>>)

\* The sum of the scores of the risks over a common denominator.
RECURSIVE ScoreSum(_)
ScoreSum(risks) ==
    IF risks = <<>> THEN Ratio(0, 1)
    ELSE LET r == Head(risks).risk_score
             rest == ScoreSum(Tail(risks))
         IN  Ratio(r.num * rest.den + rest.num * r.den, r.den * rest.den)

\* _determine_overall_risk_level on the average score.
determine_overall_risk_level(risks) ==
    LET sum == ScoreSum(risks)
        avg == Ratio(sum.num, sum.den * Len(risks))
    IN  IF risks = <<>> THEN "Low"
        ELSE IF AtLeast(avg, 7) THEN "High"
        ELSE IF AtLeast(avg, 4) THEN "Medium"
        ELSE "Low"

\* A medium bucket that leaves out the score 0.4 itself.
IsMediumRiskAbove(r) == Above(r.risk_score, 4) /\ Below(r.risk_score, 7)

\* 0.4 <= r.risk_score < 0.7
IsMediumRisk(r) == AtLeast(r.risk_score, 4) /\ Below(r.risk_score, 7)

\* assess_project_risks, where _identify_team_risks does not raise.
assess_project_risks(cs, feature_list, profiles, repo_structure) ==
    LET technical_risks == identify_technical_risks(cs, feature_list, repo_structure)
        team_risks == identify_team_risks(profiles, cs)
        business_risks == identify_business_risks(feature_list, cs)
        all_risks == technical_risks \o team_risks \o business_risks
    IN  [ total_risks |-> Len(all_risks),
          high_risk_count |->
              Len(SelectSeq(all_risks, LAMBDA r : AtLeast(r.risk_score, 7))),
          medium_risk_count |-> Len(SelectSeq(all_risks, IsMediumRisk)),
          low_risk_count |->
              Len(SelectSeq(all_risks, LAMBDA r : Below(r.risk_score, 4))),
          overall_risk_level |-> determine_overall_risk_level(all_risks),
          technical_risks |-> technical_risks,
          team_risks |-> team_risks,
          business_risks |-> business_risks,
          risk_trend |-> IF cs = <<>> \/ all_risks = <<>> THEN "Unknown" ELSE "Stable" ]

\* assess_project_risks raises TypeError: with profiles present,
\* _identify_team_risks reaches _assess_team_stability, which compares the
\* commit dates with datetime.now().
assess_project_risks_raises(cs, profiles) ==
    profiles # <<>> /\ cs # <<>> /\ ComparesAwareWithNow(cs)

(***************************************************************************)
(* analyze_project.py: the seven steps of analyze_project                  *)
(***************************************************************************)

\* d[k] = v on a dict.
Put(d, k, v) == [x \in DOMAIN d \cup {k} |-> IF x = k THEN v ELSE d[x]]

\* a + b on exact quotients.
AddRatio(a, b) == Ratio(a.num * b.den + b.num * a.den, a.den * b.den)

\* datetime.isoformat(): the text carries the date and, when there is one,
\* the offset.
isoformat(date) ==
    IF date.aware THEN <<date.day, "+00:00">> ELSE <<date.day>>

\* datetime.fromisoformat on the text isoformat() wrote.
fromisoformat(text) == [day |-> text[1], aware |-> Len(text) = 2]

\* _convert_to_dict on a CommitInfo: the date becomes its isoformat() text.
convert_commit(c) == [dict |-> [c EXCEPT !.date = isoformat(@)]]

\* _convert_to_dict on a ProjectStructure: the Technology objects of
\* technology_stack become dicts too.
convert_structure(project_structure) ==
    [dict |-> [project_structure EXCEPT !.technology_stack = convert_list(@)]]

\* _convert_to_dict on a RiskAssessment: the Risk objects of the three
\* lists become dicts too.
convert_risk_assessment(assessment) ==
    [dict |-> [assessment EXCEPT !.technical_risks = convert_list(@),
                                 !.team_risks = convert_list(@),
                                 !.business_risks = convert_list(@)]]

\* RepositoryAnalyzer.analyze_repository on an existing path: the fields of
\* ProjectStructure that later steps read.
analyze_repository(file_info_list, directories) ==
    [ total_files |-> Len(file_info_list),
      directories |-> directories,
      file_types |-> {file_info_list[i].extension : i \in 1..Len(file_info_list)},
      technology_stack |->
          SortByConfidence(<<>>, deduplicate_technologies(DetectionPasses(file_info_list))) ]

ConventionalTypes ==
    << <<"f","e","a","t">>, <<"f","i","x">>, <<"d","o","c","s">>,
       <<"s","t","y","l","e">>, <<"r","e","f","a","c","t","o","r">>,
       <<"t","e","s","t">>, <<"c","h","o","r","e">> >>

\* re.match(r'^(feat|fix|docs|style|refactor|test|chore)(\(.+\))?:', message)
MatchesConventional(message) ==
    \E i \in 1..Len(ConventionalTypes) :
        LET type == ConventionalTypes[i]
            n == Len(type)
        IN  /\ StartsWith(message, type)
            /\ \/ Len(message) > n /\ message[n + 1] = ":"
               \/ /\ Len(message) > n /\ message[n + 1] = "("
                  /\ \E j \in (n + 3)..(Len(message) - 1) :
                         /\ message[j] = ")" /\ message[j + 1] = ":"
                         /\ \A k \in (n + 2)..(j - 1) : message[k] # "\n"

\* The score of one message in _assess_commit_message_quality, in tenths.
MessageQuality(c) ==
    LET message == Strip(c.message, Whitespace)
    IN  (IF Len(message) >= 10 THEN 3 ELSE 0)
        + (IF MatchesConventional(message) THEN 4 ELSE 0)
        + (IF InList("\n", message) THEN 3 ELSE 0)

RECURSIVE MessageQualitySum(_)
MessageQualitySum(cs) ==
    IF cs = <<>> THEN 0 ELSE MessageQuality(Head(cs)) + MessageQualitySum(Tail(cs))

assess_commit_message_quality(cs) ==
    IF cs = <<>> THEN Ratio(0, 1) ELSE Ratio(MessageQualitySum(cs), 10 * Len(cs))

\* The week a commit is counted in: strftime('%Y-%W') of the Monday of its
\* week, one key per week and in date order; day 0 is a Monday.
WeekKey(c) == c.date.day \div 7

\* sorted(weekly_commits.keys())
RECURSIVE SortedWeeks(_)
SortedWeeks(keys) ==
    IF keys = {} THEN <<>>
    ELSE LET first == CHOOSE k \in keys : \A other \in keys : k <= other
         IN  <<first>> \o SortedWeeks(keys \ {first})

\* _analyze_commit_frequency_trend.  weeks[:n // 3] is the first n // 3
\* weeks; weeks[-n // 3:] starts at index (-n) // 3 and is the last
\* ceil(n / 3) weeks.
analyze_commit_frequency_trend(cs) ==
    LET weekly_commits(week) == Len(SelectSeq(cs, LAMBDA c : WeekKey(c) = week))
        weeks == SortedWeeks({WeekKey(cs[i]) : i \in 1..Len(cs)})
        n == Len(weeks)
        RECURSIVE Sum(_, _)
        Sum(from, to) == IF from > to THEN 0
                         ELSE weekly_commits(weeks[from]) + Sum(from + 1, to)
        early_avg == Sum(1, n \div 3)
        late_avg == Sum(n - ((n + 2) \div 3) + 1, n)
    IN  IF Len(cs) < 10 THEN "insufficient_data"
        ELSE IF n < 3 THEN "insufficient_data"
        ELSE IF late_avg * 10 > early_avg * 12 THEN "increasing"
        ELSE IF late_avg * 10 < early_avg * 8 THEN "decreasing"
        ELSE "stable"

\* commit_frequency_trend of the CommitPattern _analyze_commit_patterns
\* returns: the early return for no commits carries its own label.
pattern_frequency_trend(cs) ==
    IF cs = <<>> THEN "unknown" ELSE analyze_commit_frequency_trend(cs)

\* The CommitPattern of analyze_git_history: the counts with the trend and
\* the message quality (the per-day average and the active days are read by
\* no later step).
commit_pattern(cs) ==
    [ commit_frequency_trend |-> pattern_frequency_trend(cs),
      commit_message_quality |-> assess_commit_message_quality(cs) ]
        @@ analyze_commit_patterns(cs)

\* The dates _perform_additional_analysis parses back from the commit dicts.
ParsedDays(commit_dicts) ==
    {fromisoformat(commit_dicts[i].dict.date).day : i \in 1..Len(commit_dicts)}

project_timeline(commit_dicts) ==
    LET start_date == CHOOSE d \in ParsedDays(commit_dicts) :
                          \A e \in ParsedDays(commit_dicts) : d <= e
        end_date == CHOOSE d \in ParsedDays(commit_dicts) :
                        \A e \in ParsedDays(commit_dicts) : d >= e
    IN  [ start_date |-> start_date, end_date |-> end_date,
          duration_days |-> end_date - start_date,
          duration_weeks |-> (end_date - start_date) \div 7,
          duration_months |-> (end_date - start_date) \div 30 ]

\* Hours are in units of 0.0001 hour.
RECURSIVE TotalHours(_)
TotalHours(feature_dicts) ==
    IF feature_dicts = <<>> THEN 0
    ELSE Head(feature_dicts).dict.estimated_hours + TotalHours(Tail(feature_dicts))

feature_complexity(feature_dicts) ==
    [ counts |-> [c \in {"low", "medium", "high"} |->
                     Len(SelectSeq(feature_dicts, LAMBDA f : f.dict.complexity = c))],
      total_hours |-> TotalHours(feature_dicts),
      average_hours_per_feature |-> Ratio(TotalHours(feature_dicts), Len(feature_dicts)) ]

team_analysis(profile_dicts) ==
    LET primary == Len(SelectSeq(profile_dicts,
                       LAMBDA d : d.dict.business_value \in {"Critical", "High"}))
    IN  [ total_contributors |-> Len(profile_dicts),
          primary_contributors |-> primary,
          knowledge_concentration |-> Ratio(primary, Len(profile_dicts)) ]

\* _calculate_project_health_score: the factors present, then their mean.
HealthFactors(data) ==
    (IF "commit_patterns" \in DOMAIN data
     THEN <<data["commit_patterns"].dict.commit_message_quality>> ELSE <<>>)
    \o (IF "features" \in DOMAIN data /\ data["features"] # <<>>
        THEN <<Ratio(Len(SelectSeq(data["features"],
                         LAMBDA f : f.dict.status = "completed")),
                     Len(data["features"]))>>
        ELSE <<>>)
    \o (IF "risk_assessment" \in DOMAIN data
        THEN LET risk_level == data["risk_assessment"].dict.overall_risk_level
             IN  <<Ratio(IF risk_level = "Low" THEN 10
                         ELSE IF risk_level = "Medium" THEN 6 ELSE 2, 10)>>
        ELSE <<>>)
    \o (IF "team_analysis" \in DOMAIN data
        THEN <<Complement(data["team_analysis"].knowledge_concentration)>>
        ELSE <<>>)

RECURSIVE SumRatios(_)
SumRatios(ratios) ==
    IF ratios = <<>> THEN Ratio(0, 1) ELSE AddRatio(Head(ratios), SumRatios(Tail(ratios)))

calculate_project_health_score(data) ==
    LET factors == HealthFactors(data)
        sum == SumRatios(factors)
    IN  IF factors = <<>> THEN Ratio(5, 10)
        ELSE Ratio(sum.num, sum.den * Len(factors))

get_health_rating(score) ==
    IF AtLeast(score, 8) THEN "Excellent"
    ELSE IF AtLeast(score, 6) THEN "Good"
    ELSE IF AtLeast(score, 4) THEN "Fair"
    ELSE "Poor"

\* _perform_additional_analysis: a section is stored only when the list it
\* is computed from is not empty; project_health is always stored.
perform_additional_analysis(data) ==
    LET with_timeline ==
            IF data["commits"] # <<>>
            THEN Put(data, "project_timeline", project_timeline(data["commits"]))
            ELSE data
        with_complexity ==
            IF data["features"] # <<>>
            THEN Put(with_timeline, "feature_complexity",
                     feature_complexity(data["features"]))
            ELSE with_timeline
        with_team ==
            IF data["developer_profiles"] # <<>>
            THEN Put(with_complexity, "team_analysis",
                     team_analysis(data["developer_profiles"]))
            ELSE with_complexity
        health_score == calculate_project_health_score(with_team)
    IN  Put(with_team, "project_health",
            [overall_score |-> health_score, rating |-> get_health_rating(health_score)])

(***************************************************************************)
(* report_generator.py: generate_report                                    *)
(***************************************************************************)

\* Some item of the list has no attribute of that name: reading it raises
\* AttributeError.
LacksAttr(list, name) == \E i \in 1..Len(list) : ~HasAttr(list[i], name)

\* generate_report without the existence test of _load_template: the
\* outcome of the population of the template alone.
generate_report_any_template(data, template_exists) ==
    IF LacksAttr(data["features"], "status") THEN "AttributeError"
    ELSE IF LacksAttr(data["developer_profiles"], "business_value")
    THEN "AttributeError"
    ELSE IF LacksAttr(data["commits"], "message") THEN "AttributeError"
    ELSE IF \/ LacksAttr(data["risk_assessment"].dict.technical_risks, "risk_score")
            \/ LacksAttr(data["risk_assessment"].dict.team_risks, "risk_score")
            \/ LacksAttr(data["risk_assessment"].dict.business_risks, "risk_score")
    THEN "AttributeError"
    ELSE "written"

\* The outcome of generate_report: the exception it raises, or "written".
\* _load_template comes first; then the placeholder functions read, in this
\* order, f.status of the features, d.business_value of the profiles,
\* c.message of the commits and r.risk_score of the risks.
generate_report(data, template_exists) ==
    IF ~template_exists THEN "FileNotFoundError"
    ELSE IF LacksAttr(data["features"], "status") THEN "AttributeError"
    ELSE IF LacksAttr(data["developer_profiles"], "business_value")
    THEN "AttributeError"
    ELSE IF LacksAttr(data["commits"], "message") THEN "AttributeError"
    ELSE IF \/ LacksAttr(data["risk_assessment"].dict.technical_risks, "risk_score")
            \/ LacksAttr(data["risk_assessment"].dict.team_risks, "risk_score")
            \/ LacksAttr(data["risk_assessment"].dict.business_risks, "risk_score")
    THEN "AttributeError"
    ELSE "written"

(***************************************************************************)
(* One run of analyze_project                                              *)
(***************************************************************************)

MaxRunCommits == 2

\* Entries of the git log output: two authors, a recent and an old day,
\* a feature commit with a scope, a fix and a message without a prefix.
RunLogEntries ==
    { [author |-> "alice", day |-> 39, message |-> MsgFeatAddLogin,
       lines_added |-> 400, lines_deleted |-> 100],
      [author |-> "bob", day |-> 5, message |-> MsgFixNullPointer,
       lines_added |-> 10, lines_deleted |-> 2],
      [author |-> "alice", day |-> 12, message |-> MsgUpdateReadme,
       lines_added |-> 1, lines_deleted |-> 1] }

DirSrcApi == <<"s","r","c","/","a","p","i">>

DirDocs == <<"d","o","c","s">>

\* The repository of a run: no file and no directory, or one source file
\* and two directories.
RunRepositories ==
    { [files |-> <<>>, directories |-> <<>>],
      [files |-> <<FileInfo("app.py", "app.py", ".py", FALSE, TRUE, <<>>)>>,
       directories |-> <<DirSrcApi, DirDocs>>] }

\* What a run depends on: whether repo_path and the template file exist,
\* how git log ends and what it prints, whether the interpreter's
\* datetime.fromisoformat accepts the dates git prints, and the repository.
Environments ==
    [ repo_path_exists : BOOLEAN,
      template_exists : BOOLEAN,
      history : {"ok", "nonzero", "timeout"},
      log : SeqUpTo(RunLogEntries, MaxRunCommits),
      dates_accepted : BOOLEAN,
      repository : RunRepositories ]

InitPipeline ==
    /\ environment \in Environments
    /\ pc = "repository"
    /\ stages = <<>>
    /\ analysis_data = <<>>
    /\ raised = "none"
    /\ report = <<>>

IdlePipeline ==
    /\ environment = <<>>
    /\ pc = "idle"
    /\ stages = <<>>
    /\ analysis_data = <<>>
    /\ raised = "none"
    /\ report = <<>>

\* The order of the steps with feature analysis before developer analysis.
StageAfterFeaturesFirst(stage) ==
    CASE stage = "repository" -> "history"
      [] stage = "history" -> "features"
      [] stage = "features" -> "developers"
      [] stage = "developers" -> "risks"
      [] stage = "risks" -> "additional"
      [] stage = "additional" -> "report"
      [] stage = "report" -> "returned"

\* The step analyze_project executes after a step that did not raise.
StageAfter(stage) ==
    CASE stage = "repository" -> "history"
      [] stage = "history" -> "developers"
      [] stage = "developers" -> "features"
      [] stage = "features" -> "risks"
      [] stage = "risks" -> "additional"
      [] stage = "additional" -> "report"
      [] stage = "report" -> "returned"

\* Step 1: repo_structure = self.repo_analyzer.analyze_repository(repo_path)
AnalyzeRepository ==
    /\ pc = "repository"
    /\ stages' = Append(stages, "repository")
    /\ IF environment.repo_path_exists
       THEN /\ analysis_data' =
                   Put(analysis_data, "repo_structure",
                       convert_structure(
                           analyze_repository(environment.repository.files,
                                              environment.repository.directories)))
            /\ pc' = StageAfter("repository")
            /\ UNCHANGED raised
       ELSE /\ raised' = "ValueError"
            /\ pc' = "raised"
            /\ UNCHANGED analysis_data
    /\ UNCHANGED <<environment, report, gitVars, featureVars, techVars, teamVars,
                   skillVars, debtVars, levelVars, riskVars, dynamicsVars, trendVars,
                   extraVars>>

\* Step 2: commits, commit_patterns = self.git_analyzer.analyze_git_history(repo_path)
AnalyzeGitHistory ==
    /\ pc = "history"
    /\ stages' = Append(stages, "history")
    /\ commits' = get_commit_history(environment.history, environment.log,
                                     environment.dates_accepted)
    /\ commit_patterns' = <<commit_pattern(commits')>>
    /\ analysis_data' =
           Put(Put(analysis_data, "commits",
                   [i \in 1..Len(commits') |-> convert_commit(commits'[i])]),
               "commit_patterns", convert_to_dict(commit_patterns'[1]))
    /\ pc' = StageAfter("history")
    /\ UNCHANGED <<environment, raised, report, featureVars, techVars, teamVars,
                   skillVars, debtVars, levelVars, riskVars, dynamicsVars, trendVars,
                   extraVars>>

\* Step 3 with a developer analysis that leaves the commit list sorted by
\* date.
AnalyzeDevelopersSortingCommits ==
    /\ pc = "developers"
    /\ stages' = Append(stages, "developers")
    /\ developer_profiles' = create_developer_profiles(commits, analyze_developers(commits))
    /\ commits' = SortSeq(commits, LAMBDA a, b : a.date.day < b.date.day)
    /\ analysis_data' =
           Put(Put(analysis_data, "author_stats",
                   convert_list(analyze_developers(commits))),
               "developer_profiles", convert_list(developer_profiles'))
    /\ pc' = StageAfter("developers")
    /\ UNCHANGED <<environment, raised, report, commit_patterns, featureVars,
                   techVars, bus_factor, skillVars, debtVars, levelVars, riskVars,
                   dynamicsVars, trendVars,
                   extraVars>>

\* Step 3: author_stats = self.git_analyzer.analyze_developers(commits);
\* developer_profiles = self.developer_analyzer.analyze_developers(commits,
\* author_stats)
AnalyzeDevelopers ==
    /\ pc = "developers"
    /\ stages' = Append(stages, "developers")
    /\ developer_profiles' = create_developer_profiles(commits, analyze_developers(commits))
    /\ analysis_data' =
           Put(Put(analysis_data, "author_stats",
                   convert_list(analyze_developers(commits))),
               "developer_profiles", convert_list(developer_profiles'))
    /\ pc' = StageAfter("developers")
    /\ UNCHANGED <<environment, raised, report, gitVars, featureVars, techVars,
                   bus_factor, skillVars, debtVars, levelVars, riskVars,
                   dynamicsVars, trendVars,
                   extraVars>>

\* Step 4: features = self.feature_mapper.identify_features(commits,
\* self.analysis_data['repo_structure'])
IdentifyFeatures ==
    /\ pc = "features"
    /\ stages' = Append(stages, "features")
    /\ features' = identify_features(commits, analysis_data["repo_structure"])
    /\ analysis_data' = Put(analysis_data, "features", convert_list(features'))
    /\ pc' = StageAfter("features")
    /\ UNCHANGED <<environment, raised, report, gitVars, complexity, hours,
                   techVars, teamVars, skillVars, debtVars, levelVars, riskVars,
                   dynamicsVars, trendVars,
                   extraVars>>

\* Step 5: risk_assessment = self.risk_assessor.assess_project_risks(commits,
\* features, developer_profiles, self.analysis_data['repo_structure'])
AssessProjectRisks ==
    /\ pc = "risks"
    /\ stages' = Append(stages, "risks")
    /\ IF assess_project_risks_raises(commits, developer_profiles)
       THEN /\ raised' = "TypeError"
            /\ pc' = "raised"
            /\ UNCHANGED analysis_data
       ELSE /\ analysis_data' =
                   Put(analysis_data, "risk_assessment",
                       convert_risk_assessment(
                           assess_project_risks(commits, features, developer_profiles,
                                                analysis_data["repo_structure"])))
            /\ pc' = StageAfter("risks")
            /\ UNCHANGED raised
    /\ UNCHANGED <<environment, report, gitVars, featureVars, techVars, teamVars,
                   skillVars, debtVars, levelVars, riskVars, dynamicsVars, trendVars,
                   extraVars>>

\* Step 6: self._perform_additional_analysis()
PerformAdditionalAnalysis ==
    /\ pc = "additional"
    /\ stages' = Append(stages, "additional")
    /\ analysis_data' = perform_additional_analysis(analysis_data)
    /\ pc' = StageAfter("additional")
    /\ UNCHANGED <<environment, raised, report, gitVars, featureVars, techVars,
                   teamVars, skillVars, debtVars, levelVars, riskVars,
                   dynamicsVars, trendVars,
                   extraVars>>

\* Step 7: report_path = self.report_generator.generate_report(
\* self.analysis_data, output_path), and the return of the path.
GenerateReport ==
    /\ pc = "report"
    /\ stages' = Append(stages, "report")
    /\ LET outcome == generate_report(analysis_data, environment.template_exists)
       IN  IF outcome = "written"
           THEN /\ report' = Append(report, "PROJECT_ANALYSIS_REPORT.md")
                /\ pc' = StageAfter("report")
                /\ UNCHANGED raised
           ELSE /\ raised' = outcome
                /\ pc' = "raised"
                /\ UNCHANGED report
    /\ UNCHANGED <<environment, analysis_data, gitVars, featureVars, techVars,
                   teamVars, skillVars, debtVars, levelVars, riskVars,
                   dynamicsVars, trendVars,
                   extraVars>>

(***************************************************************************)
(* assess_project_risks called on its own                                  *)
(***************************************************************************)

MaxRiskCommits == 2

MaxRiskFeatures == 2

MsgAddUnitTests ==
    <<"t","e","s","t",":"," ","a","d","d"," ","u","n","i","t"," ","t","e","s","t","s">>

\* The commits of the run entries, a test commit and a legacy clean-up,
\* dated as the interpreter reads them.
RiskCommitInfo ==
    { ParseLogEntry(entry, accepted) :
          entry \in RunLogEntries
                      \cup {[author |-> "bob", day |-> 38, message |-> MsgAddUnitTests,
                             lines_added |-> 30, lines_deleted |-> 0],
                            [author |-> "alice", day |-> 20,
                             message |-> MsgFixLegacyCleanup,
                             lines_added |-> 20, lines_deleted |-> 40]},
          accepted \in BOOLEAN }

\* Commit lists whose dates were all read by the same interpreter.
RiskCommitLists ==
    {l \in SeqUpTo(RiskCommitInfo, MaxRiskCommits) :
         \A i, j \in 1..Len(l) : l[i].date.aware = l[j].date.aware}

\* The fields of Feature the assessor reads: complexity, risk_level and
\* dependencies.
RiskFeatures ==
    { [complexity |-> "high", risk_level |-> "High", dependencies |-> <<"Database">>],
      [complexity |-> "high", risk_level |-> "Low", dependencies |-> <<>>],
      [complexity |-> "low", risk_level |-> "Low", dependencies |-> <<>>] }

RiskTeams == {ProfilesOf(c) : c \in {<<>>, <<12>>, <<12, 1>>, <<30, 1, 1, 1, 1>>}}

\* A repository of twelve file types and six technologies below a directory
\* six levels deep.
SprawlingRepository ==
    [ files |->
          << FileInfo("app.py", "app.py", ".py", FALSE, TRUE, <<>>),
             FileInfo("webpack.config.js", "webpack.config.js", ".js", TRUE, TRUE, <<>>),
             FileInfo("main.ts", "main.ts", ".ts", FALSE, TRUE, <<>>),
             FileInfo("Main.java", "Main.java", ".java", FALSE, TRUE, <<>>),
             FileInfo("main.go", "main.go", ".go", FALSE, TRUE, <<>>),
             FileInfo("lib.rs", "lib.rs", ".rs", FALSE, TRUE, <<>>),
             FileInfo("util.c", "util.c", ".c", FALSE, TRUE, <<>>),
             FileInfo("README.md", "README.md", ".md", FALSE, FALSE, <<>>),
             FileInfo("site.css", "site.css", ".css", FALSE, FALSE, <<>>),
             FileInfo("index.html", "index.html", ".html", FALSE, FALSE, <<>>),
             FileInfo("schema.sql", "schema.sql", ".sql", FALSE, FALSE, <<>>),
             FileInfo("ci.yml", "ci.yml", ".yml", FALSE, FALSE, <<>>) >>,
      directories |-> << <<"a","/","b","/","c","/","d","/","e","/","f">> >> ]

RiskStructures ==
    { convert_structure(analyze_repository(r.files, r.directories)) :
          r \in RunRepositories \cup {SprawlingRepository} }

InitRisk ==
    /\ commits \in RiskCommitLists
    /\ commit_patterns = <<>>
    /\ features \in SeqUpTo(RiskFeatures, MaxRiskFeatures)
    /\ complexity = <<>>
    /\ hours = <<>>
    /\ developer_profiles \in RiskTeams
    /\ bus_factor = <<>>
    /\ structure \in RiskStructures
    /\ risk_assessment = <<>>

IdleRisk ==
    /\ structure = <<>>
    /\ risk_assessment = <<>>

\* risk_assessment = self.risk_assessor.assess_project_risks(commits,
\* features, developer_profiles, repo_structure): the RiskAssessment, or
\* the exception that leaves the call.
CallAssessProjectRisks ==
    /\ risk_assessment = <<>>
    /\ risk_assessment' =
           << IF assess_project_risks_raises(commits, developer_profiles)
              THEN [raised |-> "TypeError"]
              ELSE assess_project_risks(commits, features, developer_profiles,
                                        structure) >>
    /\ UNCHANGED <<structure, gitVars, featureVars, techVars, teamVars, skillVars,
                   debtVars, levelVars, pipelineVars, dynamicsVars, trendVars,
                   extraVars>>

(***************************************************************************)
(* developer_analyzer.py: analyze_team_dynamics                            *)
(***************************************************************************)

\* _calculate_knowledge_concentration.  In the loop,
\* weight * profile.contribution_pattern multiplies an int by the str that
\* _determine_contribution_pattern produced, which is a str, and
\* weighted_sum += <str> on the int 0 raises TypeError at the first profile.
calculate_knowledge_concentration(profiles) ==
    IF profiles = <<>> THEN [value |-> Ratio(0, 1)]
    ELSE [raised |-> "TypeError"]

\* analyze_team_dynamics: the TeamDynamics fields that are numbers, or the
\* exception that leaves the call.  The helpers called before
\* _calculate_knowledge_concentration read business_value and name only.
analyze_team_dynamics(profiles, cs) ==
    LET concentration == calculate_knowledge_concentration(profiles)
    IN  IF "raised" \in DOMAIN concentration THEN concentration
        ELSE [ team_size |-> Len(profiles),
               bus_factor |-> calculate_bus_factor(profiles),
               knowledge_concentration |-> concentration.value ]

\* Profiles with the contribution_pattern text of _create_developer_profile.
DynamicsTeams ==
    { [i \in 1..Len(team) |->
          [ name |-> team[i].name, business_value |-> team[i].business_value,
            contribution_pattern |-> "Single contribution" ]] :
      team \in {ProfilesOf(c) : c \in SeqUpTo(AuthorCommitCounts, MaxTeam)} }

InitDynamics ==
    /\ developer_profiles \in DynamicsTeams
    /\ bus_factor = <<>>
    /\ commits \in SeqUpTo({ParseLogEntry(entry, FALSE) : entry \in RunLogEntries}, 1)
    /\ commit_patterns = <<>>
    /\ team_dynamics = <<>>

IdleDynamics == team_dynamics = <<>>

\* team_dynamics = analyze_team_dynamics(developer_profiles, commits)
AnalyzeTeamDynamics ==
    /\ team_dynamics = <<>>
    /\ team_dynamics' = <<analyze_team_dynamics(developer_profiles, commits)>>
    /\ UNCHANGED <<gitVars, featureVars, techVars, teamVars, skillVars, debtVars,
                   levelVars, pipelineVars, riskVars, trendVars,
                   extraVars>>

(***************************************************************************)
(* git_analyzer.py: the commit frequency trend                             *)
(***************************************************************************)

MaxTrendCommits == 12

\* Days in four weeks, two of them in the same week.
TrendDays == <<23, 15, 8, 3, 0>>

TrendCommit(day) ==
    [ author |-> "alice", date |-> [day |-> day, aware |-> TRUE],
      message |-> MsgUpdateReadme, lines_added |-> 1, lines_deleted |-> 0,
      is_merge |-> FALSE ]

\* Commit lists in the order git log prints them, newest first: counts[i]
\* commits on the day TrendDays[i].
RECURSIVE TrendList(_, _)
TrendList(counts, i) ==
    IF i > Len(counts) THEN <<>>
    ELSE [k \in 1..counts[i] |-> TrendCommit(TrendDays[i])] \o TrendList(counts, i + 1)

TrendCommitLists ==
    { TrendList(counts, 1) :
          counts \in {c \in [1..Len(TrendDays) -> 0..MaxTrendCommits] :
                          c[1] + c[2] + c[3] + c[4] + c[5] <= MaxTrendCommits} }

InitTrend ==
    /\ commits \in TrendCommitLists
    /\ commit_patterns = <<>>
    /\ commit_frequency_trend = <<>>

IdleTrend == commit_frequency_trend = <<>>

\* patterns = self._analyze_commit_patterns(commits), its trend field.
AnalyzeCommitFrequency ==
    /\ commit_frequency_trend = <<>>
    /\ commit_patterns' = <<commit_pattern(commits)>>
    /\ commit_frequency_trend' = <<commit_patterns'[1].commit_frequency_trend>>
    /\ UNCHANGED <<commits, featureVars, techVars, teamVars, skillVars, debtVars,
                   levelVars, pipelineVars, riskVars, dynamicsVars, extraVars>>

(***************************************************************************)
(* repo_analyzer.py: _detect_layered_architecture                          *)
(***************************************************************************)

layer_dirs ==
    << <<"c","o","n","t","r","o","l","l","e","r","s">>,
       <<"s","e","r","v","i","c","e","s">>,
       <<"r","e","p","o","s","i","t","o","r","i","e","s">>,
       <<"m","o","d","e","l","s">>,
       <<"v","i","e","w","s">> >>

\* sum(1 for layer in layer_dirs for f in file_info_list
\*     if layer in f.path.lower()): one for every pair of a layer name and a
\* file whose path holds it.
RECURSIVE found_layers(_, _)
found_layers(layers, paths) ==
    IF layers = <<>> THEN 0
    ELSE Len(SelectSeq(paths, LAMBDA path : Contains(Lower(path), Head(layers))))
             + found_layers(Tail(layers), paths)

\* _detect_layered_architecture: return found_layers >= 3
detect_layered_architecture(paths) == found_layers(layer_dirs, paths) >= 3

MaxLayerFiles == 3

\* Paths below one layer directory, below two, below none, and one whose
\* case differs.
LayerPaths ==
    { <<"m","o","d","e","l","s","/","a",".","p","y">>,
      <<"m","o","d","e","l","s","/","b",".","p","y">>,
      <<"M","o","d","e","l","s","/","C",".","p","y">>,
      <<"v","i","e","w","s","/","v",".","p","y">>,
      <<"s","e","r","v","i","c","e","s","/","s",".","p","y">>,
      <<"s","e","r","v","i","c","e","s","/","m","o","d","e","l","s","/","m",".","p","y">>,
      <<"a","p","p",".","p","y">> }

InitLayer ==
    /\ file_paths \in {l \in SeqUpTo(LayerPaths, MaxLayerFiles) :
                           \A i, j \in 1..Len(l) : i # j => l[i] # l[j]}
    /\ layered_architecture = <<>>

\* self._detect_layered_architecture(file_info_list)
DetectLayeredArchitecture ==
    /\ layered_architecture = <<>>
    /\ layered_architecture' = <<detect_layered_architecture(file_paths)>>
    /\ UNCHANGED <<file_paths, statsVars, identVars, finished_runs, gitVars, featureVars,
                   techVars, teamVars, skillVars, debtVars, levelVars, pipelineVars,
                   riskVars, dynamicsVars, trendVars>>

(***************************************************************************)
(* analyze_project.py: analyze_project called again on the same analyzer   *)
(***************************************************************************)

MaxRuns == 2

\* The environments of the calls: the path and the template exist, git log
\* succeeds or exits non-zero, and prints at most one entry.
RerunEnvironments ==
    {e \in Environments :
         /\ e.repo_path_exists
         /\ e.template_exists
         /\ e.history \in {"ok", "nonzero"}
         /\ Len(e.log) <= 1}

InitRerun ==
    /\ environment \in RerunEnvironments
    /\ pc = "repository"
    /\ stages = <<>>
    /\ analysis_data = <<>>
    /\ raised = "none"
    /\ report = <<>>
    /\ finished_runs = 0

\* analyze_project(repo_path) once more after a call has returned or raised:
\* another repository, the same interpreter, and self.analysis_data as the
\* earlier call left it, __init__ being the only place that assigns {}.
AnalyzeProjectAgain ==
    /\ pc \in {"returned", "raised"}
    /\ finished_runs + 1 < MaxRuns
    /\ finished_runs' = finished_runs + 1
    /\ environment' \in {e \in RerunEnvironments :
                              e.dates_accepted = environment.dates_accepted}
    /\ pc' = "repository"
    /\ stages' = <<>>
    /\ raised' = "none"
    /\ UNCHANGED <<analysis_data, report, layerVars, statsVars, identVars, gitVars,
                   featureVars, techVars, teamVars, skillVars, debtVars, levelVars,
                   riskVars, dynamicsVars, trendVars>>

(***************************************************************************)
(* git_analyzer.py: one call of analyze_developers                         *)
(***************************************************************************)

MaxAuthorCommits == 3

\* Commits of three authors on an early and a late day.
AuthorCommitInfo ==
    { ParseLogEntry([author |-> author, day |-> day, message |-> MsgUpdateReadme,
                     lines_added |-> 1, lines_deleted |-> 1], TRUE) :
          author \in {"alice", "bob", "carol"}, day \in {5, 39} }

InitStats ==
    /\ commits \in SeqUpTo(AuthorCommitInfo, MaxAuthorCommits)
    /\ commit_patterns = <<>>
    /\ author_stats = <<>>

\* author_stats = self.git_analyzer.analyze_developers(commits)
CallAnalyzeDevelopers ==
    /\ author_stats = <<>>
    /\ author_stats' = <<analyze_developers(commits)>>
    /\ UNCHANGED <<layerVars, identVars, finished_runs, gitVars, featureVars,
                   techVars, teamVars, skillVars, debtVars, levelVars, pipelineVars,
                   riskVars, dynamicsVars, trendVars>>

(***************************************************************************)
(* feature_mapper.py: one call of identify_features                        *)
(***************************************************************************)

MaxFeatureCommits == 2

MaxFeatureDirectories == 2

MsgFeatOptimizeApi ==
    <<"f","e","a","t","(","1","2","3",")",":"," ","o","p","t","i","m","i","z","e"," ",
      "s","e","c","u","r","e"," ","a","p","i">>

MsgFeatRefactorUi ==
    <<"f","e","a","t","(","1","2","3",")",":"," ","r","e","f","a","c","t","o","r"," ",
      "u","i"," ","d","a","t","a","b","a","s","e">>

\* Commits that name the features auth, unit and 123, the last one twice,
\* and one that names none; their messages carry every tag and the words
\* api, ui and database.
FeatureCommitInfo ==
    { ParseLogEntry(entry, accepted) :
          entry \in { [author |-> "alice", day |-> 39, message |-> MsgFeatAddLogin,
                       lines_added |-> 400, lines_deleted |-> 100],
                      [author |-> "bob", day |-> 38, message |-> MsgAddUnitTests,
                       lines_added |-> 30, lines_deleted |-> 0],
                      [author |-> "bob", day |-> 5, message |-> MsgDocsFixTypo,
                       lines_added |-> 10, lines_deleted |-> 2],
                      [author |-> "alice", day |-> 20, message |-> MsgFeatOptimizeApi,
                       lines_added |-> 20, lines_deleted |-> 40],
                      [author |-> "alice", day |-> 12, message |-> MsgFeatRefactorUi,
                       lines_added |-> 1, lines_deleted |-> 1] },
          accepted \in BOOLEAN }

Dir123Feature == <<"1","2","3","-","f","e","a","t","u","r","e">>

\* A feature directory, a directory that is none, and a feature directory
\* named like the feature 123 of the commits.
FeatureDirectories == {DirSrcApi, DirDocs, Dir123Feature}

InitIdent ==
    /\ commits \in {l \in SeqUpTo(FeatureCommitInfo, MaxFeatureCommits) :
                        \A i, j \in 1..Len(l) : l[i].date.aware = l[j].date.aware}
    /\ commit_patterns = <<>>
    /\ structure \in
           { convert_structure(analyze_repository(<<>>, directories)) :
                 directories \in
                     {l \in SeqUpTo(FeatureDirectories, MaxFeatureDirectories) :
                          \A i, j \in 1..Len(l) : i # j => l[i] # l[j]} }
    /\ risk_assessment = <<>>
    /\ identified_features = <<>>

\* features = self.feature_mapper.identify_features(commits, repo_structure)
CallIdentifyFeatures ==
    /\ identified_features = <<>>
    /\ identified_features' = <<identify_features(commits, structure)>>
    /\ UNCHANGED <<layerVars, statsVars, finished_runs, gitVars, featureVars,
                   techVars, teamVars, skillVars, debtVars, levelVars, pipelineVars,
                   riskVars, dynamicsVars, trendVars>>

(***************************************************************************)
(* Specifications                                                          *)
(***************************************************************************)

\* The idle values of the components a specification does not exercise.
IdleEarlier == IdleFeature /\ IdleTech /\ IdleTeam /\ IdleSkill

IdleLayer ==
    /\ file_paths = <<>>
    /\ layered_architecture = <<>>

IdleStats == author_stats = <<>>

IdleIdent == identified_features = <<>>

IdleExtra == IdleLayer /\ IdleStats /\ IdleIdent /\ finished_runs = 0

IdleLater == IdlePipeline /\ IdleRisk /\ IdleDynamics /\ IdleTrend /\ IdleExtra

IdleMore == IdleDebt /\ IdleLevel /\ IdleLater

\* The commit classifier on every commit list of up to MaxCommits commits.
InitCommits == InitGit /\ IdleFeature /\ IdleTech /\ IdleTeam /\ IdleSkill /\ IdleMore

NextCommits == AnalyzeCommitPatterns

SpecCommits == InitCommits /\ [][NextCommits]_vars

\* assess_complexity on two features that differ in dependencies and risk.
InitFeaturePair == IdleGit /\ InitComplexity /\ IdleTech /\ IdleTeam /\ IdleSkill /\ IdleMore

NextFeaturePair == \E i \in DOMAIN features : AssessComplexity(i)

SpecComplexity == InitFeaturePair /\ [][NextFeaturePair]_vars

\* estimate_development_time called repeatedly on one feature.
InitFeatureEstimate == IdleGit /\ InitEstimate /\ IdleTech /\ IdleTeam /\ IdleSkill /\ IdleMore

NextFeatureEstimate == \E i \in DOMAIN features : EstimateDevelopmentTime(i)

SpecEstimate == InitFeatureEstimate /\ [][NextFeatureEstimate]_vars

\* Technology identification on a scanned file list, and deduplication
\* called on an entry list.
InitTechnology == IdleGit /\ IdleFeature /\ InitTech /\ IdleTeam /\ IdleSkill /\ IdleMore

NextTechnology == IdentifyTechnologyStack \/ DeduplicateTechnologies

SpecTech == InitTechnology /\ [][NextTechnology]_vars

\* The bus factor of every team of up to MaxTeam authors.
InitTeamDynamics == IdleGit /\ IdleFeature /\ IdleTech /\ InitTeam /\ IdleSkill /\ IdleMore

NextTeamDynamics == CalculateBusFactor

SpecTeam == InitTeamDynamics /\ [][NextTeamDynamics]_vars

\* The skill level of one author.
InitSkillLevel == IdleGit /\ IdleFeature /\ IdleTech /\ IdleTeam /\ InitSkill /\ IdleMore

NextSkillLevel == AssessSkillLevel

SpecSkill == InitSkillLevel /\ [][NextSkillLevel]_vars

\* The technical debt score of every commit list of up to MaxDebtCommits.
InitTechnicalDebt == InitDebt /\ IdleEarlier /\ IdleLevel /\ IdleLater

NextTechnicalDebt == AssessTechnicalDebt

SpecDebt == InitTechnicalDebt /\ [][NextTechnicalDebt]_vars

\* get_complexity_level on sizes and commit counts around its thresholds.
InitComplexityLevel == IdleGit /\ IdleEarlier /\ IdleDebt /\ InitLevel /\ IdleLater

NextComplexityLevel == GetComplexityLevel

SpecLevel == InitComplexityLevel /\ [][NextComplexityLevel]_vars

\* One run of analyze_project in every environment of Environments.
InitAnalyzeProject == InitPipeline /\ IdleGit /\ IdleEarlier /\ IdleDebt /\ IdleLevel
                          /\ IdleRisk /\ IdleDynamics /\ IdleTrend /\ IdleExtra

NextAnalyzeProject ==
    \/ AnalyzeRepository
    \/ AnalyzeGitHistory
    \/ AnalyzeDevelopers
    \/ IdentifyFeatures
    \/ AssessProjectRisks
    \/ PerformAdditionalAnalysis
    \/ GenerateReport

SpecPipeline == InitAnalyzeProject /\ [][NextAnalyzeProject]_vars

\* assess_project_risks on commits, features, teams and structures.
InitRiskAssessment == InitRisk /\ IdleTech /\ IdleSkill /\ IdleDebt /\ IdleLevel
                          /\ IdlePipeline /\ IdleDynamics /\ IdleTrend /\ IdleExtra

NextRiskAssessment == CallAssessProjectRisks

SpecRisk == InitRiskAssessment /\ [][NextRiskAssessment]_vars

\* analyze_team_dynamics on every team of up to MaxTeam authors.
InitTeamAnalysis == InitDynamics /\ IdleFeature /\ IdleTech /\ IdleSkill /\ IdleDebt
                        /\ IdleLevel /\ IdlePipeline /\ IdleRisk /\ IdleTrend
                        /\ IdleExtra

NextTeamAnalysis == AnalyzeTeamDynamics

SpecDynamics == InitTeamAnalysis /\ [][NextTeamAnalysis]_vars

\* The frequency trend of commit lists of up to MaxTrendCommits commits.
InitFrequencyTrend == InitTrend /\ IdleEarlier /\ IdleDebt /\ IdleLevel
                          /\ IdlePipeline /\ IdleRisk /\ IdleDynamics /\ IdleExtra

NextFrequencyTrend == AnalyzeCommitFrequency

SpecTrend == InitFrequencyTrend /\ [][NextFrequencyTrend]_vars

\* The layered-architecture test on lists of up to MaxLayerFiles paths.
InitLayeredArchitecture == InitLayer /\ IdleStats /\ IdleIdent /\ finished_runs = 0
                               /\ IdleGit
                               /\ IdleEarlier /\ IdleDebt /\ IdleLevel /\ IdlePipeline
                               /\ IdleRisk /\ IdleDynamics /\ IdleTrend

NextLayeredArchitecture == DetectLayeredArchitecture

SpecLayered == InitLayeredArchitecture /\ [][NextLayeredArchitecture]_vars

\* Calls of analyze_project on one ProjectAnalyzer, up to MaxRuns of them.
InitRepeatedAnalysis == InitRerun /\ IdleLayer /\ IdleStats /\ IdleIdent /\ IdleGit
                            /\ IdleEarlier /\ IdleDebt /\ IdleLevel /\ IdleRisk
                            /\ IdleDynamics /\ IdleTrend

NextRepeatedAnalysis == NextAnalyzeProject \/ AnalyzeProjectAgain

SpecRerun == InitRepeatedAnalysis /\ [][NextRepeatedAnalysis]_vars

\* analyze_developers on up to MaxAuthorCommits commits.
InitAuthorStatistics == InitStats /\ IdleLayer /\ IdleIdent /\ finished_runs = 0
                            /\ IdleEarlier /\ IdleDebt /\ IdleLevel /\ IdlePipeline
                            /\ IdleRisk /\ IdleDynamics /\ IdleTrend

NextAuthorStatistics == CallAnalyzeDevelopers

SpecAuthors == InitAuthorStatistics /\ [][NextAuthorStatistics]_vars

\* identify_features on up to MaxFeatureCommits commits and up to
\* MaxFeatureDirectories directories.
InitFeatureIdentification == InitIdent /\ IdleLayer /\ IdleStats /\ finished_runs = 0
                                 /\ IdleEarlier /\ IdleDebt /\ IdleLevel /\ IdlePipeline
                                 /\ IdleDynamics /\ IdleTrend

NextFeatureIdentification == CallIdentifyFeatures

SpecFeatures == InitFeatureIdentification /\ [][NextFeatureIdentification]_vars

(***************************************************************************)
(* Properties of the commit classifier                                     *)
(***************************************************************************)

\* The lower-cased message of the i-th commit of the list.
MessageLower(i) == Lower(commits[i].message)

MatchesNoTable(m) ==
    /\ ~AnyPatternIn(m, FEATURE_PATTERNS)
    /\ ~AnyPatternIn(m, BUG_FIX_PATTERNS)
    /\ ~AnyPatternIn(m, REFACTOR_PATTERNS)
    /\ ~AnyPatternIn(m, DOCUMENTATION_PATTERNS)

MatchesSeveralTables(m) ==
    Cardinality({t \in {FEATURE_PATTERNS, BUG_FIX_PATTERNS, REFACTOR_PATTERNS,
                        DOCUMENTATION_PATTERNS} : AnyPatternIn(m, t)}) > 1

ClassifiedSum(p) ==
    p.feature_commits + p.bug_fix_commits + p.refactor_commits
        + p.documentation_commits

\* C1: for every commit list the four category counts add up to at most
\* total_commits (no commit is counted in two categories), and the
\* unclassified remainder total_commits - sum is exactly the number of
\* commits whose lower-cased message matches none of the four pattern tables.
C1_ClassifierPartition ==
    \A k \in 1..Len(commit_patterns) :
        LET p == commit_patterns[k]
        IN  /\ p.total_commits = Len(commits)
            /\ ClassifiedSum(p) <= p.total_commits
            /\ p.total_commits - ClassifiedSum(p) = Cardinality({i \in 1..Len(commits) : MatchesNoTable(MessageLower(i))})

\* A classified list of MaxCommits commits holding a message that matches
\* several tables and a message that matches none.
C1_Witness ==
    /\ commit_patterns # <<>>
    /\ Len(commits) = MaxCommits
    /\ Cardinality({i \in 1..Len(commits) : MatchesSeveralTables(MessageLower(i))}) > 0
    /\ Cardinality({i \in 1..Len(commits) : MatchesNoTable(MessageLower(i))}) > 0

FirstMatchFeature(m) == AnyPatternIn(m, FEATURE_PATTERNS)

FirstMatchBugFix(m) ==
    /\ ~AnyPatternIn(m, FEATURE_PATTERNS)
    /\ AnyPatternIn(m, BUG_FIX_PATTERNS)

FirstMatchRefactor(m) ==
    /\ ~AnyPatternIn(m, FEATURE_PATTERNS)
    /\ ~AnyPatternIn(m, BUG_FIX_PATTERNS)
    /\ AnyPatternIn(m, REFACTOR_PATTERNS)

FirstMatchDocumentation(m) ==
    /\ ~AnyPatternIn(m, FEATURE_PATTERNS)
    /\ ~AnyPatternIn(m, BUG_FIX_PATTERNS)
    /\ ~AnyPatternIn(m, REFACTOR_PATTERNS)
    /\ AnyPatternIn(m, DOCUMENTATION_PATTERNS)

\* The scenario of the specification: three commits, no merge flag.
ScenarioCommits ==
    << [message |-> MsgFeatAddLogin, is_merge |-> FALSE],
       [message |-> MsgFixNullPointer, is_merge |-> FALSE],
       [message |-> MsgDocsUpdateReadme, is_merge |-> FALSE] >>

\* C2: classification is first-match in the order feature, bugfix, refactor,
\* documentation: each count is the number of commits whose earliest matching
\* table is that category; merge_commits is the number of commits with
\* is_merge set, whatever their category; and the messages 'feat: add login',
\* 'fix: null pointer', 'docs: update readme' without merge flags give
\* feature 1, bugfix 1, documentation 1, merge 0.
C2_FirstMatchOrder ==
    \A k \in 1..Len(commit_patterns) :
        LET p == commit_patterns[k]
        IN  /\ p.feature_commits = Cardinality({i \in 1..Len(commits) : FirstMatchFeature(MessageLower(i))})
            /\ p.bug_fix_commits = Cardinality({i \in 1..Len(commits) : FirstMatchBugFix(MessageLower(i))})
            /\ p.refactor_commits = Cardinality({i \in 1..Len(commits) : FirstMatchRefactor(MessageLower(i))})
            /\ p.documentation_commits = Cardinality({i \in 1..Len(commits) : FirstMatchDocumentation(MessageLower(i))})
            /\ p.merge_commits =
                   Cardinality({i \in 1..Len(commits) : commits[i].is_merge})
            /\ commits = ScenarioCommits =>
                   /\ p.feature_commits = 1
                   /\ p.bug_fix_commits = 1
                   /\ p.documentation_commits = 1
                   /\ p.merge_commits = 0

\* A classified list in which a merge commit matches both the feature and
\* the bugfix table.
C2_Witness ==
    /\ commit_patterns # <<>>
    /\ \E i \in 1..Len(commits) :
           /\ commits[i].is_merge
           /\ AnyPatternIn(Lower(commits[i].message), FEATURE_PATTERNS)
           /\ AnyPatternIn(Lower(commits[i].message), BUG_FIX_PATTERNS)
    /\ commit_patterns[1].feature_commits > 0
    /\ commit_patterns[1].merge_commits > 0

\* The scenario's list has been classified.
C2_ScenarioReached ==
    /\ commits = ScenarioCommits
    /\ commit_patterns # <<>>

(***************************************************************************)
(* Properties of assess_complexity and estimate_development_time           *)
(***************************************************************************)

\* Feature j has at least as many dependencies as feature i and an equal or
\* higher risk level, lines_of_code and commit_count being equal.
AtLeastAsDemanding(i, j) ==
    /\ features[i].lines_of_code = features[j].lines_of_code
    /\ features[i].commit_count = features[j].commit_count
    /\ Len(features[j].dependencies) >= Len(features[i].dependencies)
    /\ RiskRank(features[j].risk_level) >= RiskRank(features[i].risk_level)

\* C3: assess_complexity is monotonic: for two features equal in
\* lines_of_code and commit_count, more dependencies and an equal or higher
\* risk level never give a lower complexity tier (low < medium < high).
C3_ComplexityMonotonic ==
    \A i, j \in DOMAIN features :
        (complexity[i] # <<>> /\ complexity[j] # <<>> /\ AtLeastAsDemanding(i, j))
            => ComplexityRank(complexity[j][1]) >= ComplexityRank(complexity[i][1])

\* Both features assessed, the second with more dependencies and a higher
\* risk level than the first, and a strictly higher tier.
C3_Witness ==
    /\ complexity[1] # <<>>
    /\ complexity[2] # <<>>
    /\ AtLeastAsDemanding(1, 2)
    /\ Len(features[2].dependencies) > Len(features[1].dependencies)
    /\ RiskRank(features[2].risk_level) > RiskRank(features[1].risk_level)
    /\ ComplexityRank(complexity[2][1]) > ComplexityRank(complexity[1][1])

\* C4: assess_complexity returns the base level of get_complexity_level
\* escalated by exactly one level when the feature has more than 3
\* dependencies or its risk level is the label High of _determine_risk_level,
\* and the base level unchanged otherwise.
C4_EscalationOnDependenciesOrHighRisk ==
    \A i \in DOMAIN features :
        complexity[i] # <<>> =>
            LET f == features[i]
                base == get_complexity_level(f.lines_of_code, f.commit_count)
            IN  complexity[i][1] =
                    IF Len(f.dependencies) > 3 \/ f.risk_level = "High"
                    THEN Escalate(base) ELSE base

\* C5: estimate_development_time is idempotent and pure: a call leaves the
\* Feature as it was, returns what the previous call on it returned, and the
\* value is non-negative and a multiple of 0.1 (1000 units of 0.0001).
C5_EstimatePureRounded ==
    [][\A i \in DOMAIN features :
           hours'[i] # hours[i] =>
               LET h == hours'[i][Len(hours'[i])]
               IN  /\ features' = features
                   /\ h >= 0
                   /\ h % 1000 = 0
                   /\ hours[i] # <<>> => h = hours[i][Len(hours[i])]
      ]_vars

\* The estimate has been called MaxCalls times on a feature with commits and
\* dependencies, and the final rounding changed the value.
C5_Witness ==
    /\ Len(hours[1]) = MaxCalls
    /\ features[1].commit_count > 0
    /\ features[1].dependencies # <<>>
    /\ hours[1][1] > 0
    /\ hours[1][1] # estimate_development_time_unrounded(features[1])

(***************************************************************************)
(* Properties of technology deduplication                                  *)
(***************************************************************************)

\* C6: after _deduplicate_technologies no two entries of the returned list
\* share (name, category), and every (name, category) pair of the input list
\* appears exactly once in the output, the input being the concatenation of
\* the three detection passes or any other entry list.
C6_DeduplicatedKeysUnique ==
    \A k \in 1..Len(unique_tech) :
        LET u == unique_tech[k]
        IN  /\ \A i, j \in 1..Len(u) : i # j => ~SameKey(u[i], u[j])
            /\ \A i \in 1..Len(tech_stack) :
                   Cardinality({j \in 1..Len(u) : SameKey(u[j], tech_stack[i])}) = 1

\* The three passes over a scanned file list produced entries that share a
\* key, and deduplication returned fewer entries, of several keys.
C6_Witness ==
    /\ files # <<>>
    /\ unique_tech # <<>>
    /\ Len(unique_tech[1]) < Len(tech_stack)
    /\ Len(unique_tech[1]) >= 2

\* The evidence lists of the entries of the list that share the key of e,
\* concatenated in list order.
RECURSIVE GroupEvidence(_, _)
GroupEvidence(tech_list, e) ==
    IF tech_list = <<>> THEN <<>>
    ELSE (IF SameKey(Head(tech_list), e) THEN Head(tech_list).evidence ELSE <<>>)
             \o GroupEvidence(Tail(tech_list), e)

GroupConfidences(tech_list, e) ==
    {tech_list[i].confidence : i \in {j \in 1..Len(tech_list) : SameKey(tech_list[j], e)}}

\* C7: for every group of input entries sharing (name, category), the merged
\* entry's confidence is the maximum confidence of the group and its evidence
\* is the concatenation of the group's evidence lists in input order.
C7_MergeMaxConfidenceAndEvidence ==
    \A k \in 1..Len(unique_tech) :
        \A j \in 1..Len(unique_tech[k]) :
            LET e == unique_tech[k][j]
                group == GroupConfidences(tech_stack, e)
            IN  /\ e.confidence \in group
                /\ \A c \in group : e.confidence >= c
                /\ e.evidence = GroupEvidence(tech_stack, e)

\* A deduplicated list in which a later entry of a group has a higher
\* confidence and other evidence than an earlier one.
C7_Witness ==
    /\ unique_tech # <<>>
    /\ \E i, j \in 1..Len(tech_stack) :
           /\ i < j
           /\ SameKey(tech_stack[i], tech_stack[j])
           /\ tech_stack[j].confidence > tech_stack[i].confidence
           /\ tech_stack[j].evidence # tech_stack[i].evidence

(***************************************************************************)
(* Properties of the bus factor and the skill level                        *)
(***************************************************************************)

\* C8: _calculate_bus_factor returns 0 for an empty profile list and, for a
\* profile list of n >= 1 profiles, an integer b with 1 <= b <= n.
C8_BusFactorRange ==
    \A k \in 1..Len(bus_factor) :
        IF developer_profiles = <<>>
        THEN bus_factor[k] = 0
        ELSE /\ bus_factor[k] \in Int
             /\ 1 <= bus_factor[k]
             /\ bus_factor[k] <= Len(developer_profiles)

\* The bus factor of a team of MaxTeam authors lies strictly between 1 and
\* the team size.
C8_Witness ==
    /\ bus_factor # <<>>
    /\ Len(developer_profiles) = MaxTeam
    /\ 1 < bus_factor[1]
    /\ bus_factor[1] < Len(developer_profiles)

\* The bus factor of the empty team has been computed.
C8_EmptyTeamReached ==
    /\ bus_factor # <<>>
    /\ developer_profiles = <<>>

RECURSIVE WeightOf(_, _)
WeightOf(profiles, S) ==
    IF S = {} THEN 0
    ELSE LET i == CHOOSE x \in S : TRUE
         IN  BusinessValueWeight(profiles[i].business_value)
                 + WeightOf(profiles, S \ {i})

\* The largest total weight k profiles of the list can have.
TopWeight(profiles, k) ==
    LET sums == {WeightOf(profiles, S) :
                     S \in {T \in SUBSET (1..Len(profiles)) : Cardinality(T) = k}}
    IN  CHOOSE w \in sums : \A v \in sums : w >= v

\* The number of top contributors, by descending business-value weight,
\* whose cumulative weight reaches 70% of the team's total weight.
WeightedBusFactor(profiles) ==
    LET n == Len(profiles)
        enough == {k \in 0..n :
                       TopWeight(profiles, k) * 10 >= TopWeight(profiles, n) * 7}
    IN  CHOOSE k \in enough : \A m \in enough : k <= m

\* C9: the bus factor is the number of top contributors, taken in descending
\* business-value weight (Critical 5, High 4, Medium 3, Low 2, Minimal 1),
\* needed for their cumulative weight to reach 70% of the team's total
\* weight.
C9_BusFactorByCumulativeWeight ==
    \A k \in 1..Len(bus_factor) :
        bus_factor[k] = WeightedBusFactor(developer_profiles)

\* The scenario of the specification: 120 commits, 55%, 30 lines per commit.
ScenarioAuthor ==
    [commit_count |-> 120, contribution_percentage |-> 55, average_commit_size |-> 30]

\* C10: the skill score is the sum of three independent tiers (commit_count
\* >= 100: 3, >= 50: 2, >= 20: 1; contribution_percentage >= 50: 2, >= 20: 1;
\* average_commit_size <= 50: 2, <= 100: 1), so it lies in 0..7; the level is
\* Expert from 6, Senior from 4, Mid-level from 2, Junior below; and 120
\* commits, 55%, 30 lines per commit give score 7 and Expert.
C10_SkillScoreAndLevel ==
    \A k \in 1..Len(skill) :
        LET a == author_stat
            commitTier == CASE a.commit_count >= 100 -> 3
                            [] a.commit_count \in 50..99 -> 2
                            [] a.commit_count \in 20..49 -> 1
                            [] OTHER -> 0
            shareTier == CASE a.contribution_percentage >= 50 -> 2
                           [] a.contribution_percentage \in 20..49 -> 1
                           [] OTHER -> 0
            sizeTier == CASE a.average_commit_size <= 50 -> 2
                          [] a.average_commit_size \in 51..100 -> 1
                          [] OTHER -> 0
            score == skill[k].skill_score
        IN  /\ score = commitTier + shareTier + sizeTier
            /\ score \in 0..7
            /\ skill[k].skill_level =
                   CASE score \in 6..7 -> "Expert"
                     [] score \in 4..5 -> "Senior"
                     [] score \in 2..3 -> "Mid-level"
                     [] OTHER -> "Junior"
            /\ a = ScenarioAuthor =>
                   skill[k].skill_score = 7 /\ skill[k].skill_level = "Expert"

\* The scenario's author has been assessed.
C10_Witness ==
    /\ skill # <<>>
    /\ author_stat = ScenarioAuthor

(***************************************************************************)
(* Properties of the risk assessor                                         *)
(***************************************************************************)

\* C11: _assess_technical_debt returns exactly 0.0 for an empty commit list,
\* and for a non-empty list a value in [0, 1]: the indicator sum divided by
\* max(0.3 x commits, 1), capped at 1.0.
C11_TechnicalDebtRange ==
    \A k \in 1..Len(technical_debt) :
        LET d == technical_debt[k]
            sum == DebtIndicatorSum(commits)
            den == Max(3 * Len(commits), 10)
        IN  /\ d.den > 0
            /\ 0 <= d.num
            /\ d.num <= d.den
            /\ commits = <<>> => d.num = 0
            /\ commits # <<>> =>
                   IF sum >= den THEN d.num = d.den
                   ELSE d.num * den = sum * d.den

\* The debt of MaxDebtCommits commits has been computed, the divisor being
\* 0.3 x commits, with an uncapped quotient above the cap.
C11_Witness ==
    /\ technical_debt # <<>>
    /\ Len(commits) = MaxDebtCommits
    /\ 3 * Len(commits) > 10
    /\ DebtIndicatorSum(commits) > 3 * Len(commits)

\* The debt of the empty commit list has been computed.
C11_EmptyReached ==
    /\ technical_debt # <<>>
    /\ commits = <<>>

(***************************************************************************)
(* Properties of get_complexity_level                                      *)
(***************************************************************************)

\* C12: get_complexity_level returns 'low' exactly when loc and commit_count
\* are both within the low thresholds, 'medium' exactly when it is not low
\* and both are within the medium thresholds, and 'high' otherwise; any loc
\* above MEDIUM_COMPLEXITY_LOC gives 'high' whatever the commit count, and
\* loc = 1200 with 2 commits gives 'high'.
C12_ComplexityLevelTable ==
    \A k \in 1..Len(complexity_level) :
        LET l == complexity_level[k]
            isLow == /\ level_args.loc <= LOW_COMPLEXITY_LOC
                     /\ level_args.commit_count <= LOW_COMPLEXITY_COMMITS
            isMedium == /\ ~isLow
                        /\ level_args.loc <= MEDIUM_COMPLEXITY_LOC
                        /\ level_args.commit_count <= MEDIUM_COMPLEXITY_COMMITS
        IN  /\ l \in ComplexityLevels
            /\ l = "low" <=> isLow
            /\ l = "medium" <=> isMedium
            /\ l = "high" <=> (~isLow /\ ~isMedium)
            /\ level_args.loc > MEDIUM_COMPLEXITY_LOC => l = "high"
            /\ (level_args.loc = 1200 /\ level_args.commit_count = 2) => l = "high"

\* The level of 1200 lines of code in 2 commits has been computed.
C12_Witness ==
    /\ complexity_level # <<>>
    /\ level_args = [loc |-> 1200, commit_count |-> 2]

(***************************************************************************)
(* Properties of analyze_project                                           *)
(***************************************************************************)

FixedKeys ==
    { "repo_structure", "commits", "commit_patterns", "author_stats",
      "developer_profiles", "features", "risk_assessment", "project_timeline",
      "feature_complexity", "team_analysis", "project_health" }

\* C13: when analyze_project reaches report generation, analysis_data holds
\* all eleven fixed top-level keys, for every input including an empty
\* commit list, an empty feature list or an empty profile list.
C13_FixedKeysAtReport ==
    pc = "report" => FixedKeys \subseteq DOMAIN analysis_data

\* C14: when git log exits non-zero or times out, _get_commit_history
\* returns the empty list, every later step runs on it, and with the
\* repository path and the template file present analyze_project writes the
\* report and returns its path instead of raising.
C14_ReportAfterProviderFailure ==
    ( /\ pc \notin {"idle", "repository", "history"}
      /\ environment.history # "ok"
      /\ environment.repo_path_exists
      /\ environment.template_exists )
    => /\ commits = <<>>
       /\ raised = "none"
       /\ pc = "returned" => report # <<>>

\* The steps that have started are the first ones of the given order.
StagesFollow(order) ==
    /\ Len(stages) <= Len(order)
    /\ \A i \in 1..Len(stages) : stages[i] = order[i]

\* C15: a missing repository path makes analyze_project raise in its first
\* step, before any history, developer, feature or risk step; a missing
\* template file makes generate_report raise FileNotFoundError; either way
\* the error leaves analyze_project and no report file is written.
C15_MissingInputIsFatal ==
    /\ (pc # "idle" /\ pc # "repository" /\ ~environment.repo_path_exists)
       => /\ pc = "raised"
          /\ raised = "ValueError"
          /\ stages = <<"repository">>
          /\ DOMAIN analysis_data = {}
          /\ report = <<>>
    /\ (pc # "idle" /\ InList("report", stages) /\ ~environment.template_exists)
       => /\ pc = "raised"
          /\ raised = "FileNotFoundError"
          /\ report = <<>>

\* generate_report has run without a template file, after all six earlier
\* steps.
C15_Witness ==
    /\ pc = "raised"
    /\ ~environment.template_exists
    /\ Len(stages) = 7
    /\ stages[7] = "report"

\* analyze_project has stopped on a repository path that does not exist.
C15_PathMissingReached ==
    /\ pc = "raised"
    /\ ~environment.repo_path_exists
    /\ environment.history = "ok"
    /\ environment.log # <<>>

\* C16 as stated: the steps run in the order repository structure, commit
\* history, feature extraction, developer profiling, risk assessment,
\* aggregation, report.
C16_FeaturesBeforeDevelopers ==
    StagesFollow(<<"repository", "history", "features", "developers", "risks",
                   "additional", "report">>)

\* C16, amended: in every run of analyze_project the steps execute strictly
\* one after another in the order repository structure and technology
\* identification, commit history and classification, developer profiling,
\* feature extraction, risk assessment, aggregation, report rendering; the
\* step about to run is the one after the last step started.
C16_StageOrder ==
    /\ StagesFollow(<<"repository", "history", "developers", "features", "risks",
                      "additional", "report">>)
    /\ pc \notin {"idle", "raised"} =>
           pc = (IF stages = <<>> THEN "repository"
                 ELSE StageAfter(stages[Len(stages)]))

\* Developer profiling and feature extraction have both run, on commits.
C16_Witness ==
    /\ Len(stages) >= 4
    /\ commits # <<>>
    /\ developer_profiles # <<>>
    /\ features # <<>>

\* C17: the commit records are never mutated after the history provider
\* returned them: after the developer analysis, identify_features,
\* assess_project_risks and _perform_additional_analysis the list has the
\* length, the order and the field values _get_commit_history returned.
C17_CommitsNeverMutated ==
    InList("history", stages) =>
        commits = get_commit_history(environment.history, environment.log,
                                     environment.dates_accepted)

\* All four steps have run on two commits of different authors.
C17_Witness ==
    /\ InList("additional", stages)
    /\ Len(commits) = 2
    /\ commits[1].author # commits[2].author

\* The developer analysis has run on two commits whose dates are not in
\* ascending order.
C17_UnorderedDatesReached ==
    /\ InList("developers", stages)
    /\ Len(commits) = 2
    /\ commits[1].date.day > commits[2].date.day

(***************************************************************************)
(* Properties of assess_project_risks                                      *)
(***************************************************************************)

\* C18: in every RiskAssessment each emitted risk is counted in exactly one
\* of the three severity buckets (score >= 0.7 high, 0.4 <= score < 0.7
\* medium, score < 0.4 low), so high_risk_count + medium_risk_count +
\* low_risk_count = total_risks = len(technical_risks) + len(team_risks)
\* + len(business_risks).
C18_SeverityBucketsPartition ==
    \A k \in 1..Len(risk_assessment) :
        LET a == risk_assessment[k]
        IN  "total_risks" \in DOMAIN a =>
                LET all_risks == a.technical_risks \o a.team_risks \o a.business_risks
                    high == {i \in 1..Len(all_risks) : all_risks[i].risk_score.num * 10
                                 >= 7 * all_risks[i].risk_score.den}
                    low == {i \in 1..Len(all_risks) : all_risks[i].risk_score.num * 10
                                < 4 * all_risks[i].risk_score.den}
                    medium == (1..Len(all_risks)) \ (high \cup low)
                IN  /\ high \cap low = {}
                    /\ a.high_risk_count = Cardinality(high)
                    /\ a.medium_risk_count = Cardinality(medium)
                    /\ a.low_risk_count = Cardinality(low)
                    /\ a.high_risk_count + a.medium_risk_count + a.low_risk_count
                           = a.total_risks
                    /\ a.total_risks = Len(a.technical_risks) + Len(a.team_risks)
                                           + Len(a.business_risks)

\* An assessment with a risk of score exactly 0.4, a high risk, and risks
\* of two categories.
C18_Witness ==
    /\ risk_assessment # <<>>
    /\ "total_risks" \in DOMAIN risk_assessment[1]
    /\ \E i \in 1..Len(risk_assessment[1].technical_risks) :
           LET r == risk_assessment[1].technical_risks[i].risk_score
           IN  r.num * 10 = 4 * r.den
    /\ risk_assessment[1].high_risk_count > 0
    /\ risk_assessment[1].team_risks # <<>>

\* An assessment with a low, a medium and a high risk.
C18_EveryBucketReached ==
    /\ risk_assessment # <<>>
    /\ "total_risks" \in DOMAIN risk_assessment[1]
    /\ risk_assessment[1].high_risk_count > 0
    /\ risk_assessment[1].medium_risk_count > 0
    /\ risk_assessment[1].low_risk_count > 0

(***************************************************************************)
(* Properties of analyze_team_dynamics                                     *)
(***************************************************************************)

\* C19: for any non-empty list of developer profiles analyze_team_dynamics
\* returns a TeamDynamics (it does not raise) whose knowledge_concentration
\* is a ratio in [0, 1] equal to the fraction of profiles with business
\* value Critical or High.
C19_KnowledgeConcentrationFraction ==
    \A k \in 1..Len(team_dynamics) :
        developer_profiles # <<>> =>
            /\ "knowledge_concentration" \in DOMAIN team_dynamics[k]
            /\ LET c == team_dynamics[k].knowledge_concentration
                   primary == Cardinality({i \in 1..Len(developer_profiles) :
                                  developer_profiles[i].business_value
                                      \in {"Critical", "High"}})
               IN  /\ 0 <= c.num /\ c.num <= c.den
                   /\ c.num * Len(developer_profiles) = primary * c.den

(***************************************************************************)
(* Properties of the commit frequency trend                                *)
(***************************************************************************)

\* C20: for every commit set CommitPattern.commit_frequency_trend is one of
\* 'increasing', 'decreasing', 'stable', 'insufficient_data', and it is
\* 'insufficient_data' whenever the set has fewer than 10 commits (the
\* empty set included) or its commits fall in fewer than 3 distinct weeks.
C20_FrequencyTrendLabels ==
    \A k \in 1..Len(commit_frequency_trend) :
        /\ commit_frequency_trend[k]
               \in {"increasing", "decreasing", "stable", "insufficient_data"}
        /\ ( \/ Len(commits) < 10
             \/ Cardinality({commits[i].date.day \div 7 : i \in 1..Len(commits)}) < 3 )
           => commit_frequency_trend[k] = "insufficient_data"

\* The commits of a list that fall in the given week.
CommitsInWeek(week) ==
    Cardinality({i \in 1..Len(commits) : commits[i].date.day \div 7 = week})

\* C21: the trend compares the commit sum of the first third of the n
\* distinct weeks with that of the last third, both windows holding
\* floor(n / 3) weeks, for every n >= 3; so a history of at least 10 commits
\* with the same number of commits in every week is labelled 'stable'.
C21_EqualWindowsTrend ==
    \A k \in 1..Len(commit_frequency_trend) :
        LET weeks == {commits[i].date.day \div 7 : i \in 1..Len(commits)}
        IN  ( /\ Len(commits) >= 10
              /\ Cardinality(weeks) >= 3
              /\ \A v, w \in weeks : CommitsInWeek(v) = CommitsInWeek(w) )
            => commit_frequency_trend[k] = "stable"

\* The ids of the risks of a list.
RiskIds(risks) == {risks[i].id : i \in 1..Len(risks)}

\* The RiskAssessments returned so far.
Assessments ==
    {risk_assessment[k] : k \in {j \in 1..Len(risk_assessment) :
                                     "raised" \notin DOMAIN risk_assessment[j]}}

\* C22: the placeholder rules never fire: no assessment holds TECH_005,
\* TEAM_003, BUS_001 or BUS_003, and business_risks holds at most the one
\* risk BUS_002.
C22_PlaceholderRulesSilent ==
    \A a \in Assessments :
        /\ RiskIds(a.technical_risks \o a.team_risks \o a.business_risks)
               \cap {"TECH_005", "TEAM_003", "BUS_001", "BUS_003"} = {}
        /\ Len(a.business_risks) <= 1
        /\ RiskIds(a.business_risks) \subseteq {"BUS_002"}

\* An assessment of commits, features and profiles, for which the
\* placeholder estimates are 0.3 and 0.4 and every rule was evaluated, with
\* the timeline risk present.
C22_Witness ==
    /\ commits # <<>> /\ features # <<>> /\ developer_profiles # <<>>
    /\ \E a \in Assessments : RiskIds(a.business_risks) = {"BUS_002"}

\* C23: the risk_trend of every RiskAssessment is 'Stable', whatever the
\* input, the empty commit list and an assessment without risks included.
C23_RiskTrendStable ==
    \A k \in 1..Len(risk_assessment) :
        "raised" \notin DOMAIN risk_assessment[k]
            => risk_assessment[k].risk_trend = "Stable"

\* The layer names that occur in the path of at least one file.
DistinctLayers ==
    {i \in 1..Len(layer_dirs) :
         \E j \in 1..Len(file_paths) : Contains(Lower(file_paths[j]), layer_dirs[i])}

\* C24: the layered pattern is reported only when at least three distinct
\* layer names occur as path substrings; files that all lie below one layer
\* directory count as one layer.
C24_ThreeDistinctLayers ==
    \A k \in 1..Len(layered_architecture) :
        layered_architecture[k] => Cardinality(DistinctLayers) >= 3

\* The Feature objects identify_features has returned.
IdentifiedFeatures ==
    UNION {{identified_features[k][i] : i \in 1..Len(identified_features[k])} :
               k \in 1..Len(identified_features)}

CommitAndStructureTags ==
    {"bugfix", "feature", "refactor", "documentation", "testing", "performance",
     "security", "structure-based"}

\* C25: every Feature identify_features returns has an empty dependency
\* list, and its tags are commit tags or 'structure-based', never 'api',
\* 'database' or 'ui'.
C25_NoDependencies ==
    \A f \in IdentifiedFeatures :
        /\ f.dependencies = <<>>
        /\ f.tags \subseteq CommitAndStructureTags
        /\ f.tags \cap {"api", "database", "ui"} = {}

\* A feature merged from a commit whose message holds the word api and from
\* a directory, and a feature of the directory src/api, were returned.
C25_Witness ==
    /\ \E f \in IdentifiedFeatures : {"structure-based", "security"} \subseteq f.tags
    /\ \E f \in IdentifiedFeatures : f.name = <<"A","p","i">>

\* C26: a Feature has status 'completed' exactly when at least one commit is
\* associated with it and 'planned' exactly when none is; 'in_progress' is
\* never produced.
C26_StatusFollowsCommits ==
    \A f \in IdentifiedFeatures :
        /\ f.status = "completed" <=> f.commit_count >= 1
        /\ f.status = "planned" <=> f.commit_count = 0
        /\ f.status # "in_progress"

\* One call returned a feature of two commits and a feature of a directory
\* alone.
C26_Witness ==
    /\ \E f \in IdentifiedFeatures : f.commit_count = 2 /\ f.status = "completed"
    /\ \E f \in IdentifiedFeatures : f.commit_count = 0 /\ f.status = "planned"

\* The section stored under the key, if any, is the one step 6 computes
\* from the list stored under the source key, and that list is not empty.
SectionIsCurrent(key, source, value) ==
    key \in DOMAIN analysis_data
        => /\ analysis_data[source] # <<>>
           /\ analysis_data[key] = value

\* C27: when analyze_project is called again on the same ProjectAnalyzer,
\* then after the later call has run _perform_additional_analysis no
\* project_timeline, feature_complexity or team_analysis of an earlier
\* repository survives: each section present was computed from the later
\* call's commits, features and developer profiles.
C27_NoStaleSections ==
    (finished_runs >= 1 /\ \E i \in 1..Len(stages) : stages[i] = "additional")
        => /\ SectionIsCurrent("project_timeline", "commits",
                               project_timeline(analysis_data["commits"]))
           /\ SectionIsCurrent("feature_complexity", "features",
                               feature_complexity(analysis_data["features"]))
           /\ SectionIsCurrent("team_analysis", "developer_profiles",
                               team_analysis(analysis_data["developer_profiles"]))

RECURSIVE CommitCountSum(_)
CommitCountSum(stats) ==
    IF stats = <<>> THEN 0 ELSE Head(stats).commit_count + CommitCountSum(Tail(stats))

\* C28: GitAnalyzer.analyze_developers returns exactly one AuthorStats for
\* every distinct author of the list; the commit_counts are the authors'
\* numbers of commits and sum to the number of commits; first_commit <=
\* last_commit in every entry; the entries are in order of non-increasing
\* commit_count; and the empty list gives the empty list.
C28_AuthorStatsPartition ==
    \A k \in 1..Len(author_stats) :
        LET stats == author_stats[k]
        IN  /\ {stats[i].name : i \in 1..Len(stats)}
                   = {commits[j].author : j \in 1..Len(commits)}
            /\ \A i, j \in 1..Len(stats) : i # j => stats[i].name # stats[j].name
            /\ \A i \in 1..Len(stats) :
                   /\ stats[i].commit_count
                          = Cardinality({j \in 1..Len(commits) :
                                             commits[j].author = stats[i].name})
                   /\ stats[i].first_commit <= stats[i].last_commit
            /\ CommitCountSum(stats) = Len(commits)
            /\ \A i, j \in 1..Len(stats) :
                   i < j => stats[i].commit_count >= stats[j].commit_count
            /\ commits = <<>> => stats = <<>>

\* A call on three commits whose first author has fewer commits than the
\* second: the sort moves the second author to the front.
C28_Witness ==
    /\ Len(commits) = 3
    /\ Len(author_stats) = 1
    /\ Len(author_stats[1]) = 2
    /\ author_stats[1][1].name # commits[1].author
    /\ author_stats[1][1].first_commit < author_stats[1][1].last_commit

\* The call on the empty list returned the empty list.
C28_EmptyListReached == commits = <<>> /\ author_stats = << <<>> >>

\* The assessment holds TECH_004 with the score 1.0.
EmitsFullTestingRisk(a) ==
    \E i \in 1..Len(a.technical_risks) :
        /\ a.technical_risks[i].id = "TECH_004"
        /\ a.technical_risks[i].risk_score.num = a.technical_risks[i].risk_score.den

\* C29: for an empty commit list assess_project_risks always emits TECH_004
\* with the score 1.0; with no commits, no features and no profiles the
\* assessment has total_risks = 1, high_risk_count = 1 and the overall
\* level 'High'.
C29_EmptyHistoryOneRisk ==
    \A a \in Assessments :
        commits = <<>>
            => /\ EmitsFullTestingRisk(a)
               /\ (features = <<>> /\ developer_profiles = <<>>)
                      => /\ a.total_risks = 1
                         /\ a.high_risk_count = 1
                         /\ a.overall_risk_level = "High"

\* C29 (amended): for an empty commit list TECH_004 with the score 1.0 is
\* always emitted; with no commits, no features and no profiles the overall
\* level is 'High' and every risk is a high one, and there is one risk,
\* unless the architecture complexity of the repository structure exceeds
\* 0.7, in which case TECH_003 is emitted as well and there are two.
C29_EmptyHistoryRisks ==
    \A a \in Assessments :
        commits = <<>>
            => /\ EmitsFullTestingRisk(a)
               /\ (features = <<>> /\ developer_profiles = <<>>)
                      => /\ a.overall_risk_level = "High"
                         /\ a.high_risk_count = a.total_risks
                         /\ a.total_risks =
                                IF Above(assess_architecture_complexity(structure), 7)
                                THEN 2 ELSE 1
                         /\ RiskIds(a.technical_risks) \subseteq {"TECH_003", "TECH_004"}

\* The assessment of no commits, no features and no profiles on a simple
\* repository structure: one risk.
C29_Witness ==
    /\ commits = <<>> /\ features = <<>> /\ developer_profiles = <<>>
    /\ \E a \in Assessments : a.total_risks = 1 /\ a.overall_risk_level = "High"

\* The same assessment on the repository of twelve file types: two risks.
C29_TwoRisksReached ==
    /\ commits = <<>> /\ features = <<>> /\ developer_profiles = <<>>
    /\ \E a \in Assessments : a.total_risks = 2

\* The risks of an assessment, in the order of all_risks.
AllRisks(a) == a.technical_risks \o a.team_risks \o a.business_risks

\* C30: every Risk of an assessment has 0 < risk_score <= 1, the ids of the
\* risks of one assessment are pairwise distinct, and an assessment holds at
\* most 8 risks.
C30_ScoresAndIds ==
    \A a \in Assessments :
        LET risks == AllRisks(a)
        IN  /\ \A i \in 1..Len(risks) :
                   /\ risks[i].risk_score.num > 0
                   /\ risks[i].risk_score.num <= risks[i].risk_score.den
                   /\ risks[i].risk_score.den > 0
            /\ \A i, j \in 1..Len(risks) : i # j => risks[i].id # risks[j].id
            /\ Len(risks) <= 8

\* An assessment with the timeline risk at its cap 1.0 and at least five
\* risks.
C30_Witness ==
    \E a \in Assessments :
        /\ Len(AllRisks(a)) >= 5
        /\ \E i \in 1..Len(a.business_risks) :
               a.business_risks[i].risk_score.num = a.business_risks[i].risk_score.den

=============================================================================
